---- MODULE Spec2Model ----
(***************************************************************************)
(* Cohort construction engine of movr: EnrollmentValidator, FieldResolver  *)
(* and CohortManager (src/movr/cohorts/validation.py, manager.py).         *)
(*                                                                         *)
(* A DataFrame is a record [columns, rows]: columns is the ordered         *)
(* sequence of column names, rows a sequence of functions from column      *)
(* name to cell.  A cell is <<v>> for a value v and <<>> for a null        *)
(* (NaN / None), so a null never compares equal to a value.                *)
(* A Python dict is a function whose DOMAIN is its key set.                *)
(***************************************************************************)
EXTENDS Integers, Sequences, FiniteSets, TLC

VARIABLES tables, mappings, demographics_with_age, cohorts, call, log

vars == <<tables, mappings, demographics_with_age, cohorts, call, log>>

(* ------------------------------ bounds --------------------------------- *)

NumPatients == 2

MaxRows == 2

MaxForms == 2

MaxColumns == 2

(* --------------------------- generic helpers --------------------------- *)

None == "None"

NaN == <<>>

IsNull(cell) == Len(cell) = 0

ToSet(s) == {s[i] : i \in DOMAIN s}

Get(d, k) == IF k \in DOMAIN d THEN d[k] ELSE None

Put(d, k, v) == [x \in DOMAIN d \cup {k} |-> IF x = k THEN v ELSE d[x]]

RECURSIVE Concat(_)
Concat(ss) == IF ss = <<>> THEN <<>> ELSE Head(ss) \o Concat(Tail(ss))

\* positions of s whose element passes Keep(element, position)
Filter(s, Keep(_, _)) ==
    LET RECURSIVE F(_)
        F(i) == IF i > Len(s) THEN <<>>
                ELSE (IF Keep(s[i], i) THEN <<s[i]>> ELSE <<>>) \o F(i + 1)
    IN F(1)

\* pandas Series.unique / DataFrame.drop_duplicates: first occurrences, in order
Unique(s) == Filter(s, LAMBDA e, i : \A j \in 1..(i - 1) : s[j] # e)

NoDuplicates(s) == \A i, j \in DOMAIN s : s[i] = s[j] => i = j

\* every ordering of a finite set: list(set) has an unspecified order
Orderings(S) ==
    {s \in [1..Cardinality(S) -> S] : \A i, j \in DOMAIN s : s[i] = s[j] => i = j}

Column(df, c) == [i \in DOMAIN df.rows |-> df.rows[i][c]]

PatientIds(df) == [i \in DOMAIN df.rows |-> df.rows[i]["FACPATID"][1]]

Empty(df) == Len(df.rows) = 0 \/ Len(df.columns) = 0

EmptyFrame == [columns |-> <<>>, rows |-> <<>>]

(* ------------------------------ the store ------------------------------ *)

Patients == 1..NumPatients

FormNames == {"demographics_maindata", "diagnosis_maindata", "encounter_maindata"}

DefaultForms == <<"demographics_maindata", "diagnosis_maindata", "encounter_maindata">>

\* non-decreasing index sequences: one representative per multiset of rows
SortedSeqs(n, len) ==
    {s \in [1..len -> 1..n] : \A i \in 1..(len - 1) : s[i] <= s[i + 1]}

\* patient-keyed form tables with only the identifier column
IdTables ==
    UNION {{[columns |-> <<"FACPATID">>,
             rows |-> [i \in 1..len |-> [FACPATID |-> <<s[i]>>]]]
            : s \in SortedSeqs(NumPatients, len)} : len \in 0..MaxRows}

(* ------------------- EnrollmentValidator (validation.py) ---------------- *)

\* mutant: a form absent from the store counts as a form without patients
PatientSets_absent_empty(required_forms) ==
    [i \in DOMAIN required_forms |->
        IF required_forms[i] \notin DOMAIN tables THEN {}
        ELSE ToSet(Unique(PatientIds(tables[required_forms[i]])))]

\* validation.py:44-52  the per-form sets of the forms present in the store
PatientSets(required_forms) ==
    LET RECURSIVE Collect(_)
        Collect(fs) ==
            IF fs = <<>> THEN <<>>
            ELSE IF Head(fs) \notin DOMAIN tables THEN Collect(Tail(fs))
            ELSE <<ToSet(Unique(PatientIds(tables[Head(fs)])))>> \o Collect(Tail(fs))
    IN Collect(required_forms)

\* mutant: the union of the per-form sets instead of their intersection
Intersection_union(sets) == UNION {sets[i] : i \in DOMAIN sets}

\* set.intersection(*sets) for a non-empty sequence of sets
RECURSIVE Intersection(_)
Intersection(sets) ==
    IF Len(sets) = 1 THEN sets[1] ELSE sets[1] \cap Intersection(Tail(sets))

\* mutant: no form of the list in the store gives a list without patients
EnrolledOutcome_no_error(required_forms) ==
    LET patient_sets == PatientSets(required_forms)
    IN IF patient_sets = <<>>
       THEN [status |-> "ok", value |-> {}]
       ELSE [status |-> "ok", value |-> Intersection(patient_sets)]

\* validation.py:24-64  the set behind the returned list, or the error
EnrolledOutcome(required_forms) ==
    LET patient_sets == PatientSets(required_forms)
    IN IF patient_sets = <<>>
       THEN [status |-> "No required forms found in tables", value |-> {}]
       ELSE [status |-> "ok", value |-> Intersection(patient_sets)]

\* mutant: forms absent from the store are left out of the report
FormPatients_skip_absent(required_forms) ==
    [f \in ToSet(required_forms) \cap DOMAIN tables |->
        ToSet(Unique(PatientIds(tables[f])))]

\* validation.py:86-95  form name -> set, absent forms as the empty set
FormPatients(required_forms) ==
    [f \in ToSet(required_forms) |->
        IF f \in DOMAIN tables THEN ToSet(Unique(PatientIds(tables[f]))) ELSE {}]

\* validation.py:66-131
EnrollmentReport(required_forms) ==
    LET form_patients == FormPatients(required_forms)
        names == DOMAIN form_patients
        enrolled == IF names # {}
                    THEN {p \in UNION {form_patients[f] : f \in names} :
                            \A f \in names : p \in form_patients[f]}
                    ELSE {}
        all_patients == IF names # {} THEN UNION {form_patients[f] : f \in names} ELSE {}
        missing_by_form == [f \in names |-> all_patients \ form_patients[f]]
    IN [enrolled_count |-> Cardinality(enrolled),
        total_unique_patients |-> Cardinality(all_patients),
        enrolled_patients |-> enrolled,
        form_counts |-> [f \in names |-> Cardinality(form_patients[f])],
        missing_by_form |-> [f \in names |-> Cardinality(missing_by_form[f])]]

(* ----------------------- FieldResolver (manager.py) --------------------- *)

\* manager.py:22-31
DEFAULT_MAPPINGS ==
    [disease |-> "dstype", registry |-> "usndr", gender |-> "gender",
     birth_date |-> "dob", age |-> None, patient_id |-> "FACPATID",
     enrollment_date |-> "enroldt", encounter_date |-> "encntdt"]

\* manager.py:91-96
fallbacks ==
    [disease |-> <<"dstype", "DISEASE", "DIAGNOSIS">>,
     registry |-> <<"usndr", "REGISTRY", "DATA_SOURCE">>,
     gender |-> <<"gender", "sex", "GENDER", "SEX">>,
     age |-> <<"AGE", "age", "AGE_YEARS">>]

\* str.lower on the names that occur as columns or canonical names
Lower(s) ==
    LET up == [FACPATID |-> "facpatid", DISEASE |-> "disease", DIAGNOSIS |-> "diagnosis",
               REGISTRY |-> "registry", DATA_SOURCE |-> "data_source",
               GENDER |-> "gender", SEX |-> "sex", AGE |-> "age",
               AGE_YEARS |-> "age_years", Disease |-> "disease", Gender |-> "gender",
               Registry |-> "registry", Age |-> "age",
               DMD |-> "dmd", SMA |-> "sma", True |-> "true", False |-> "false"]
    IN IF s \in DOMAIN up THEN up[s] ELSE s

\* first element of s satisfying P, None when there is none
First(s, P(_)) ==
    IF \E i \in DOMAIN s : P(s[i])
    THEN s[CHOOSE i \in DOMAIN s : P(s[i]) /\ \A j \in 1..(i - 1) : ~P(s[j])]
    ELSE None

\* mutant: the synonym list is consulted before the case-insensitive match
resolve_synonyms_first(canonical_name, columns) ==
    LET configured == Get(mappings, canonical_name)
        mapped == IF configured # None THEN configured
                  ELSE Get(DEFAULT_MAPPINGS, canonical_name)
        direct == First(columns, LAMBDA col : Lower(col) = Lower(canonical_name))
        synonyms == IF canonical_name \in DOMAIN fallbacks
                    THEN fallbacks[canonical_name] ELSE <<>>
        synonym == First(synonyms, LAMBDA fb : fb \in ToSet(columns))
    IN IF mapped # None /\ mapped \in ToSet(columns) THEN mapped
       ELSE IF synonym # None THEN synonym
       ELSE direct

\* manager.py:68-102  FieldResolver.resolve
resolve(canonical_name, columns) ==
    LET configured == Get(mappings, canonical_name)
        mapped == IF configured # None THEN configured
                  ELSE Get(DEFAULT_MAPPINGS, canonical_name)
        direct == First(columns, LAMBDA col : Lower(col) = Lower(canonical_name))
        synonyms == IF canonical_name \in DOMAIN fallbacks
                    THEN fallbacks[canonical_name] ELSE <<>>
    IN IF mapped # None /\ mapped \in ToSet(columns) THEN mapped
       ELSE IF direct # None THEN direct
       ELSE First(synonyms, LAMBDA fb : fb \in ToSet(columns))

\* manager.py:155-166  CohortManager._resolve_filter_field
ResolveFilterField(field, columns) ==
    IF field \in ToSet(columns) THEN field ELSE resolve(field, columns)

(* ------------------------ CohortManager (manager.py) -------------------- *)

\* datetime.now() at construction, in whole years
Today == 2026

\* the birth dates that parse, with their year
ParseYear == [y2010 |-> 2010, y1980 |-> 1980]

\* pd.to_datetime(errors='coerce'): a null or unparseable text gives NaT
ToDatetime(cell) ==
    IF IsNull(cell) THEN NaN
    ELSE IF cell[1] \in DOMAIN ParseYear THEN <<ParseYear[cell[1]]>> ELSE NaN

\* mutant: a missing birth date counts as age 0
PrepareDemographics_null_as_zero(tbls) ==
    IF "demographics_maindata" \notin DOMAIN tbls THEN <<>>
    ELSE LET df == tbls["demographics_maindata"]
             dob_col == resolve("birth_date", df.columns)
         IN IF dob_col # None /\ "AGE" \notin ToSet(df.columns)
            THEN <<[columns |-> Append(df.columns, "AGE"),
                    rows |-> [i \in DOMAIN df.rows |->
                        [c \in ToSet(df.columns) \cup {"AGE"} |->
                            IF c = dob_col THEN ToDatetime(df.rows[i][c])
                            ELSE IF c # "AGE" THEN df.rows[i][c]
                            ELSE IF IsNull(ToDatetime(df.rows[i][dob_col])) THEN <<0>>
                            ELSE <<Today - ToDatetime(df.rows[i][dob_col])[1]>>]]]>>
            ELSE <<df>>

\* manager.py:128-147  CohortManager._prepare_demographics: the derived copy
PrepareDemographics(tbls) ==
    IF "demographics_maindata" \notin DOMAIN tbls THEN <<>>
    ELSE LET df == tbls["demographics_maindata"]
             dob_col == resolve("birth_date", df.columns)
         IN IF dob_col # None /\ "AGE" \notin ToSet(df.columns)
            THEN <<[columns |-> Append(df.columns, "AGE"),
                    rows |-> [i \in DOMAIN df.rows |->
                        [c \in ToSet(df.columns) \cup {"AGE"} |->
                            IF c = dob_col THEN ToDatetime(df.rows[i][c])
                            ELSE IF c # "AGE" THEN df.rows[i][c]
                            ELSE IF IsNull(ToDatetime(df.rows[i][dob_col])) THEN NaN
                            ELSE <<Today - ToDatetime(df.rows[i][dob_col])[1]>>]]]>>
            ELSE <<df>>

\* mutant: the derived columns are written to the store's own table
StoreAfterPrepare_no_copy(tbls) ==
    IF "demographics_maindata" \notin DOMAIN tbls THEN tbls
    ELSE [t \in DOMAIN tbls |->
            IF t = "demographics_maindata" THEN PrepareDemographics(tbls)[1] ELSE tbls[t]]

\* manager.py:119, 133  the store keeps its tables: the derivation works on
\* a .copy() of the demographics table
StoreAfterPrepare(tbls) == tbls

\* manager.py:149-153  CohortManager._get_demographics
GetDemographics ==
    IF demographics_with_age # <<>> THEN demographics_with_age[1]
    ELSE IF "demographics_maindata" \in DOMAIN tables
         THEN tables["demographics_maindata"] ELSE EmptyFrame

\* the cohort DataFrame: a single FACPATID column
CohortFrame(ids) ==
    [columns |-> <<"FACPATID">>, rows |-> [i \in DOMAIN ids |-> [FACPATID |-> <<ids[i]>>]]]

\* mutant: how="right", every demographics row and only those
Merge_right(left, right) ==
    LET extra == SelectSeq(right.columns, LAMBDA c : c # "FACPATID")
    IN [columns |-> left.columns \o extra, rows |-> right.rows]

\* DataFrame.merge(right, on="FACPATID", how="left")
Merge(left, right) ==
    LET extra == SelectSeq(right.columns, LAMBDA c : c # "FACPATID")
        cols == left.columns \o extra
        Joined(l) ==
            LET matches == SelectSeq(right.rows, LAMBDA r : r["FACPATID"] = l["FACPATID"])
            IN IF matches = <<>>
               THEN <<[c \in ToSet(cols) |-> IF c \in DOMAIN l THEN l[c] ELSE NaN]>>
               ELSE [k \in DOMAIN matches |->
                        [c \in ToSet(cols) |-> IF c \in DOMAIN l THEN l[c] ELSE matches[k][c]]]
    IN [columns |-> cols, rows |-> Concat([i \in DOMAIN left.rows |-> Joined(left.rows[i])])]

\* Series == True, element by element: Python equality, under which the
\* numbers 1 and 1.0 (written "1") equal True and a null equals nothing
EqualsTrue(cell) == cell \in {<<"True">>, <<"1">>}

\* df[mask]: the rows whose cell in column col satisfies P
Where(df, col, P(_)) ==
    [columns |-> df.columns, rows |-> SelectSeq(df.rows, LAMBDA r : P(r[col]))]

\* mutant: the DataHub side keeps only the rows whose registry cell is False
ApplyRegistryFilter_false_only(df, value) ==
    LET registry_col == IF "usndr" \in ToSet(df.columns) THEN "usndr" ELSE None
    IN IF registry_col = None THEN df
       ELSE IF value.kind = "scalar" /\ value.v[1] \in {"True", "usndr", "USNDR"}
            THEN [columns |-> df.columns,
                  rows |-> SelectSeq(df.rows, LAMBDA r : r[registry_col] = <<"True">>)]
            ELSE [columns |-> df.columns,
                  rows |-> SelectSeq(df.rows, LAMBDA r : r[registry_col] = <<"False">>)]

\* mutant: every truthy filter value selects the USNDR side
ApplyRegistryFilter_truthy(df, value) ==
    LET registry_col == ResolveFilterField("registry", df.columns)
    IN IF registry_col = None THEN df
       ELSE IF value.kind = "scalar" /\ value.v[1] \notin {"False", "None", "", "0"}
            THEN Where(df, registry_col, LAMBDA cell : EqualsTrue(cell))
            ELSE Where(df, registry_col, LAMBDA cell : ~EqualsTrue(cell))

\* manager.py:168-189  CohortManager._apply_registry_filter
ApplyRegistryFilter(df, value) ==
    LET registry_col == ResolveFilterField("registry", df.columns)
    IN IF registry_col = None THEN df
       ELSE IF value.kind = "scalar" /\ value.v[1] \in {"True", "usndr", "USNDR"}
            THEN Where(df, registry_col, LAMBDA cell : EqualsTrue(cell))
            ELSE Where(df, registry_col, LAMBDA cell : ~EqualsTrue(cell))

\* mutant: the bounds of a range are exclusive
ApplyValueFilter_exclusive(df, actual_field, value) ==
    CASE value.kind = "dict" ->
            LET lo == IF "min" \in DOMAIN value.v
                      THEN Where(df, actual_field,
                                 LAMBDA cell : ~IsNull(cell) /\ cell[1] > value.v["min"])
                      ELSE df
            IN IF "max" \in DOMAIN value.v
               THEN Where(lo, actual_field,
                          LAMBDA cell : ~IsNull(cell) /\ cell[1] < value.v["max"])
               ELSE lo
      [] value.kind = "tuple" /\ Len(value.v) = 2 ->
            Where(df, actual_field,
                  LAMBDA cell : ~IsNull(cell) /\ cell[1] > value.v[1] /\ cell[1] < value.v[2])
      [] value.kind = "list" ->
            Where(df, actual_field,
                  LAMBDA cell : ~IsNull(cell) /\ cell[1] \in ToSet(value.v))
      [] OTHER ->
            Where(df, actual_field, LAMBDA cell : ~IsNull(cell) /\ cell = value.v)

\* mutant: a null cell passes every comparison
ApplyValueFilter_nulls_pass(df, actual_field, value) ==
    CASE value.kind = "dict" ->
            LET lo == IF "min" \in DOMAIN value.v
                      THEN Where(df, actual_field,
                                 LAMBDA cell : IsNull(cell) \/ cell[1] >= value.v["min"])
                      ELSE df
            IN IF "max" \in DOMAIN value.v
               THEN Where(lo, actual_field,
                          LAMBDA cell : IsNull(cell) \/ cell[1] <= value.v["max"])
               ELSE lo
      [] value.kind = "tuple" /\ Len(value.v) = 2 ->
            Where(df, actual_field,
                  LAMBDA cell : IsNull(cell) \/ (cell[1] >= value.v[1] /\ cell[1] <= value.v[2]))
      [] value.kind = "list" ->
            Where(df, actual_field,
                  LAMBDA cell : ~IsNull(cell) /\ cell[1] \in ToSet(value.v))
      [] OTHER ->
            Where(df, actual_field, LAMBDA cell : IsNull(cell) \/ cell = value.v)

\* manager.py:291-309  one resolved field filter, by the shape of its value;
\* a comparison with a null cell is false
ApplyValueFilter(df, actual_field, value) ==
    CASE value.kind = "dict" ->
            LET lo == IF "min" \in DOMAIN value.v
                      THEN Where(df, actual_field,
                                 LAMBDA cell : ~IsNull(cell) /\ cell[1] >= value.v["min"])
                      ELSE df
            IN IF "max" \in DOMAIN value.v
               THEN Where(lo, actual_field,
                          LAMBDA cell : ~IsNull(cell) /\ cell[1] <= value.v["max"])
               ELSE lo
      [] value.kind = "tuple" /\ Len(value.v) = 2 ->
            Where(df, actual_field,
                  LAMBDA cell : ~IsNull(cell) /\ cell[1] >= value.v[1] /\ cell[1] <= value.v[2])
      [] value.kind = "list" ->
            Where(df, actual_field,
                  LAMBDA cell : ~IsNull(cell) /\ cell[1] \in ToSet(value.v))
      [] OTHER ->
            Where(df, actual_field, LAMBDA cell : ~IsNull(cell) /\ cell = value.v)

\* mutant: a field that resolves to no column matches no row
RECURSIVE ApplyFilters_unresolved_empty(_, _)
ApplyFilters_unresolved_empty(df, filters) ==
    IF filters = <<>> THEN df
    ELSE LET field == Head(filters)[1]
             value == Head(filters)[2]
             actual_field == ResolveFilterField(field, df.columns)
         IN IF field = "registry"
            THEN ApplyFilters_unresolved_empty(ApplyRegistryFilter(df, value), Tail(filters))
            ELSE IF actual_field = None
            THEN [columns |-> df.columns, rows |-> <<>>]
            ELSE ApplyFilters_unresolved_empty(ApplyValueFilter(df, actual_field, value),
                                               Tail(filters))

\* manager.py:278-309  the loop over filters.items(), in the caller's order
RECURSIVE ApplyFilters(_, _)
ApplyFilters(df, filters) ==
    IF filters = <<>> THEN df
    ELSE LET field == Head(filters)[1]
             value == Head(filters)[2]
             actual_field == ResolveFilterField(field, df.columns)
         IN IF field = "registry"
            THEN ApplyFilters(ApplyRegistryFilter(df, value), Tail(filters))
            ELSE IF actual_field = None
            THEN ApplyFilters(df, Tail(filters))
            ELSE ApplyFilters(ApplyValueFilter(df, actual_field, value), Tail(filters))

\* manager.py:311-313  cohort[custom_filter(cohort)]: the mask keeps the
\* rows at the positions the predicate selects
ApplyCustom(df, custom_filter) ==
    IF ~custom_filter.given THEN df
    ELSE [columns |-> df.columns,
          rows |-> Filter(df.rows, LAMBDA r, i : i \in custom_filter.keep)]

\* mutant: the identifier column without drop_duplicates
DropDuplicates_keep_all(ids) == ids

\* manager.py:315-316  cohort[["FACPATID"]].drop_duplicates()
DropDuplicates(ids) == Unique(ids)

\* manager.py:268-316  the cohort filter_cohort stores, from the source ids
FilterResult(source, filters, custom_filter) ==
    LET demographics == GetDemographics
        cohort == IF ~Empty(demographics)
                  THEN Merge(CohortFrame(source), demographics)
                  ELSE CohortFrame(source)
        filtered == ApplyCustom(ApplyFilters(cohort, filters), custom_filter)
    IN DropDuplicates(PatientIds(filtered))

(* ---------------------- the calls of the public API --------------------- *)

\* the outcome of a call: its return value, or the ValueError it raises
Ok(op, args, value) ==
    [op |-> op, args |-> args, status |-> "ok", message |-> "", value |-> value]

Raise(op, args, message) ==
    [op |-> op, args |-> args, status |-> "ValueError", message |-> message, value |-> <<>>]

Frozen == UNCHANGED <<tables, mappings, demographics_with_age>>

\* validation.py:24-64  EnrollmentValidator.get_enrolled_patients
GetEnrolledPatients(required_forms) ==
    LET out == EnrolledOutcome(required_forms)
        args == [required_forms |-> required_forms]
    IN /\ IF out.status = "ok"
          THEN \E enrolled \in Orderings(out.value) :
                   call' = Ok("get_enrolled_patients", args, enrolled)
          ELSE call' = Raise("get_enrolled_patients", args, out.status)
       /\ UNCHANGED cohorts
       /\ Frozen

\* validation.py:66-131  EnrollmentValidator.validate_enrollment
ValidateEnrollment(required_forms) ==
    /\ call' = Ok("validate_enrollment", [required_forms |-> required_forms],
                  EnrollmentReport(required_forms))
    /\ UNCHANGED cohorts
    /\ Frozen

\* mutant: a name that is already in the mapping keeps its cohort
CreateBaseCohort_keep_existing(name, require_forms, validate_enrollment) ==
    LET args == [name |-> name, require_forms |-> require_forms,
                 validate_enrollment |-> validate_enrollment]
        out == EnrolledOutcome(require_forms)
        Store(enrolled_patients) ==
            /\ cohorts' = IF name \in DOMAIN cohorts THEN cohorts
                          ELSE Put(cohorts, name, enrolled_patients)
            /\ call' = Ok("create_base_cohort", args, enrolled_patients)
        Fail(message) ==
            /\ call' = Raise("create_base_cohort", args, message)
            /\ UNCHANGED cohorts
    IN /\ IF validate_enrollment
          THEN IF out.status = "ok"
               THEN \E enrolled \in Orderings(out.value) : Store(enrolled)
               ELSE Fail(out.status)
          ELSE IF "demographics_maindata" \in DOMAIN tables
               THEN Store(Unique(PatientIds(tables["demographics_maindata"])))
               ELSE Fail("demographics_maindata table not found")
       /\ Frozen

\* manager.py:191-232  CohortManager.create_base_cohort
CreateBaseCohort(name, require_forms, validate_enrollment) ==
    LET args == [name |-> name, require_forms |-> require_forms,
                 validate_enrollment |-> validate_enrollment]
        out == EnrolledOutcome(require_forms)
        Store(enrolled_patients) ==
            /\ cohorts' = Put(cohorts, name, enrolled_patients)
            /\ call' = Ok("create_base_cohort", args, enrolled_patients)
        Fail(message) ==
            /\ call' = Raise("create_base_cohort", args, message)
            /\ UNCHANGED cohorts
    IN /\ IF validate_enrollment
          THEN IF out.status = "ok"
               THEN \E enrolled \in Orderings(out.value) : Store(enrolled)
               ELSE Fail(out.status)
          ELSE IF "demographics_maindata" \in DOMAIN tables
               THEN Store(Unique(PatientIds(tables["demographics_maindata"])))
               ELSE Fail("demographics_maindata table not found")
       /\ Frozen

\* mutant: the source DataFrame is filtered in place, without .copy()
FilterCohort_in_place(source_cohort, name, filters, custom_filter) ==
    LET args == [source_cohort |-> source_cohort, name |-> name,
                 filters |-> filters, custom_filter |-> custom_filter]
    IN /\ IF source_cohort \notin DOMAIN cohorts
          THEN /\ call' = Raise("filter_cohort", args, "Source cohort not found")
               /\ UNCHANGED cohorts
          ELSE LET cohort == FilterResult(cohorts[source_cohort], filters, custom_filter)
               IN /\ cohorts' = Put(Put(cohorts, source_cohort, cohort), name, cohort)
                  /\ call' = Ok("filter_cohort", args, cohort)
       /\ Frozen

\* mutant: an unknown source is taken as a cohort without patients
FilterCohort_missing_source(source_cohort, name, filters, custom_filter) ==
    LET args == [source_cohort |-> source_cohort, name |-> name,
                 filters |-> filters, custom_filter |-> custom_filter]
        source == IF source_cohort \in DOMAIN cohorts THEN cohorts[source_cohort] ELSE <<>>
        cohort == FilterResult(source, filters, custom_filter)
    IN /\ cohorts' = Put(cohorts, name, cohort)
       /\ call' = Ok("filter_cohort", args, cohort)
       /\ Frozen

\* manager.py:234-324  CohortManager.filter_cohort
FilterCohort(source_cohort, name, filters, custom_filter) ==
    LET args == [source_cohort |-> source_cohort, name |-> name,
                 filters |-> filters, custom_filter |-> custom_filter]
    IN /\ IF source_cohort \notin DOMAIN cohorts
          THEN /\ call' = Raise("filter_cohort", args, "Source cohort not found")
               /\ UNCHANGED cohorts
          ELSE LET cohort == FilterResult(cohorts[source_cohort], filters, custom_filter)
               IN /\ cohorts' = Put(cohorts, name, cohort)
                  /\ call' = Ok("filter_cohort", args, cohort)
       /\ Frozen

\* mutant: reading an unknown name registers an empty cohort under it
Read_creates_missing(op, name, args, value) ==
    /\ call' = IF name \notin DOMAIN cohorts
               THEN Raise(op, args, "Cohort not found")
               ELSE Ok(op, args, value)
    /\ cohorts' = IF name \notin DOMAIN cohorts THEN Put(cohorts, name, <<>>) ELSE cohorts
    /\ Frozen

\* the body of a read operation that starts with self.get_cohort(name)
Read(op, name, args, value) ==
    /\ call' = IF name \notin DOMAIN cohorts
               THEN Raise(op, args, "Cohort not found")
               ELSE Ok(op, args, value)
    /\ UNCHANGED cohorts
    /\ Frozen

\* manager.py:326-330  CohortManager.get_cohort
GetCohort(name) ==
    Read("get_cohort", name, [name |-> name], Get(cohorts, name))

\* manager.py:332-334  CohortManager.list_cohorts
ListCohorts ==
    /\ call' = Ok("list_cohorts", <<>>, DOMAIN cohorts)
    /\ UNCHANGED cohorts
    /\ Frozen

\* manager.py:336-358  CohortManager.get_cohort_data
CohortData(name, include_demographics) ==
    IF include_demographics /\ ~Empty(GetDemographics)
    THEN Merge(CohortFrame(cohorts[name]), GetDemographics)
    ELSE CohortFrame(cohorts[name])

GetCohortData(name, include_demographics) ==
    Read("get_cohort_data", name,
         [name |-> name, include_demographics |-> include_demographics],
         IF name \in DOMAIN cohorts THEN CohortData(name, include_demographics) ELSE <<>>)

\* mutant: the tables with an identifier column are returned whole
FilteredTables_all_rows(name, requested) ==
    LET tables_to_filter == IF requested # <<>> /\ requested[1] # <<>>
                            THEN ToSet(requested[1]) ELSE DOMAIN tables
    IN [t \in tables_to_filter \cap DOMAIN tables |-> tables[t]]

\* manager.py:385-403  the dict get_filtered_tables returns; requested is
\* <<>> for tables=None and <<names>> for a list of names
FilteredTables(name, requested) ==
    LET cohort_ids == ToSet(cohorts[name])
        tables_to_filter == IF requested # <<>> /\ requested[1] # <<>>
                            THEN ToSet(requested[1]) ELSE DOMAIN tables
    IN [t \in tables_to_filter \cap DOMAIN tables |->
          IF "FACPATID" \in ToSet(tables[t].columns)
          THEN [columns |-> tables[t].columns,
                rows |-> SelectSeq(tables[t].rows,
                            LAMBDA r : ~IsNull(r["FACPATID"]) /\ r["FACPATID"][1] \in cohort_ids)]
          ELSE tables[t]]

\* manager.py:360-403  CohortManager.get_filtered_tables
GetFilteredTables(name, requested) ==
    Read("get_filtered_tables", name, [name |-> name, tables |-> requested],
         IF name \in DOMAIN cohorts THEN FilteredTables(name, requested) ELSE <<>>)

\* Series.value_counts().to_dict(): the counts of the non-null values
ValueCounts(cells) ==
    [v \in {cells[i][1] : i \in {j \in DOMAIN cells : ~IsNull(cells[j])}} |->
        Cardinality({i \in DOMAIN cells : cells[i] = <<v>>})]

\* mean, median, min and max of the non-null ages; mean and median are
\* fractions <<numerator, denominator>>
AgeStats(cells) ==
    LET idx == {i \in DOMAIN cells : ~IsNull(cells[i])}
        n == Cardinality(idx)
        RECURSIVE Sum(_)
        Sum(I) == IF I = {} THEN 0
                  ELSE LET i == CHOOSE x \in I : TRUE IN cells[i][1] + Sum(I \ {i})
        Kth(k) == CHOOSE v \in {cells[i][1] : i \in idx} :
                     /\ Cardinality({i \in idx : cells[i][1] < v}) < k
                     /\ Cardinality({i \in idx : cells[i][1] <= v}) >= k
    IN [mean |-> <<Sum(idx), n>>,
        median |-> <<Kth((n + 1) \div 2) + Kth((n + 2) \div 2), 2>>,
        min |-> Kth(1),
        max |-> Kth(n)]

\* mutant: n_patients is the number of joined rows
CohortSummary_counts_rows(name) ==
    LET cohort == cohorts[name]
        demographics == GetDemographics
        merged == Merge(CohortFrame(cohort), demographics)
        disease_col == ResolveFilterField("disease", merged.columns)
        registry_col == ResolveFilterField("registry", merged.columns)
        usndr_count == Cardinality({i \in DOMAIN merged.rows :
                                       EqualsTrue(merged.rows[i][registry_col])})
        disease == IF disease_col = None THEN <<>>
                   ELSE "disease_distribution" :> ValueCounts(Column(merged, disease_col))
        registry == IF registry_col = None THEN <<>>
                    ELSE "registry_distribution" :>
                            [USNDR |-> usndr_count,
                             DataHub |-> Len(merged.rows) - usndr_count]
    IN IF Empty(demographics)
       THEN [name |-> name, n_patients |-> Len(cohort)]
       ELSE [name |-> name, n_patients |-> Len(merged.rows)] @@ disease @@ registry

\* manager.py:405-461  the dict get_cohort_summary returns
CohortSummary(name) ==
    LET cohort == cohorts[name]
        demographics == GetDemographics
        merged == Merge(CohortFrame(cohort), demographics)
        gender_col == ResolveFilterField("gender", merged.columns)
        disease_col == ResolveFilterField("disease", merged.columns)
        registry_col == ResolveFilterField("registry", merged.columns)
        age_col == ResolveFilterField("age", merged.columns)
        usndr_count == Cardinality({i \in DOMAIN merged.rows :
                                       EqualsTrue(merged.rows[i][registry_col])})
        gender == IF gender_col = None THEN <<>>
                  ELSE "gender_distribution" :> ValueCounts(Column(merged, gender_col))
        age == IF age_col = None THEN <<>>
               ELSE IF \A i \in DOMAIN merged.rows : IsNull(merged.rows[i][age_col])
               THEN <<>>
               ELSE "age_stats" :> AgeStats(Column(merged, age_col))
        disease == IF disease_col = None THEN <<>>
                   ELSE "disease_distribution" :> ValueCounts(Column(merged, disease_col))
        registry == IF registry_col = None THEN <<>>
                    ELSE "registry_distribution" :>
                            [USNDR |-> usndr_count,
                             DataHub |-> Len(merged.rows) - usndr_count]
    IN IF Empty(demographics)
       THEN [name |-> name, n_patients |-> Len(cohort)]
       ELSE [name |-> name, n_patients |-> Len(cohort)]
            @@ gender @@ age @@ disease @@ registry

\* manager.py:405-461  CohortManager.get_cohort_summary
GetCohortSummary(name) ==
    Read("get_cohort_summary", name, [name |-> name],
         IF name \in DOMAIN cohorts THEN CohortSummary(name) ELSE <<>>)

\* manager.py:473-480  the serializer chosen by output_path.endswith
Format(output_path) ==
    CASE output_path = "cohort.csv" -> "csv"
      [] output_path = "cohort.xlsx" -> "xlsx"
      [] output_path = "cohort.parquet" -> "parquet"
      [] OTHER -> None

\* manager.py:463-482  CohortManager.export_cohort
ExportCohort(name, output_path) ==
    LET args == [name |-> name, output_path |-> output_path]
    IN /\ call' = IF name \notin DOMAIN cohorts
                  THEN Raise("export_cohort", args, "Cohort not found")
                  ELSE IF Format(output_path) = None
                  THEN Raise("export_cohort", args, "Unsupported file format")
                  ELSE Ok("export_cohort", args,
                          [format |-> Format(output_path), rows |-> cohorts[name]])
       /\ UNCHANGED cohorts
       /\ Frozen

(* ------------------------------- inputs -------------------------------- *)

\* the k-th demographics row: patients by profiles, a profile the cells of
\* the columns other than the identifier
DemoRow(columns, profiles, k) ==
    LET p == ((k - 1) % NumPatients) + 1
        profile == profiles[((k - 1) \div NumPatients) + 1]
    IN [c \in ToSet(columns) |-> IF c = "FACPATID" THEN <<p>> ELSE profile[c]]

\* the demographics tables of at most MaxRows rows, a patient may have several
DemoTablesOver(columns, profiles) ==
    UNION {{[columns |-> columns,
             rows |-> [i \in 1..len |-> DemoRow(columns, profiles, s[i])]]
            : s \in SortedSeqs(NumPatients * Len(profiles), len)} : len \in 0..MaxRows}

\* demographics with a registry column, and demographics without one
DemoTables ==
    DemoTablesOver(<<"FACPATID", "dstype", "usndr">>,
                   <<[dstype |-> <<"DMD">>, usndr |-> <<"True">>],
                     [dstype |-> <<"DMD">>, usndr |-> <<"False">>],
                     [dstype |-> <<"DMD">>, usndr |-> NaN],
                     [dstype |-> <<"BMD">>, usndr |-> <<"True">>],
                     [dstype |-> <<"BMD">>, usndr |-> <<"False">>],
                     [dstype |-> <<"BMD">>, usndr |-> NaN]>>)
    \cup DemoTablesOver(<<"FACPATID", "dstype">>,
                        <<[dstype |-> <<"DMD">>], [dstype |-> <<"BMD">>]>>)

\* the demographics tables of a session
SessionDemoTables ==
    DemoTablesOver(<<"FACPATID", "dstype", "usndr">>,
                   <<[dstype |-> <<"DMD">>, usndr |-> <<"True">>],
                     [dstype |-> <<"DMD">>, usndr |-> NaN],
                     [dstype |-> NaN, usndr |-> <<"True">>]>>)

\* the form table that lists every patient once
FullTable ==
    [columns |-> <<"FACPATID">>, rows |-> [i \in 1..NumPatients |-> [FACPATID |-> <<i>>]]]

\* a reference table: no patient identifier column
ReferenceTable ==
    [columns |-> <<"code", "label">>,
     rows |-> <<[code |-> <<"DMD">>, label |-> <<"Duchenne">>],
               [code |-> <<"BMD">>, label |-> <<"Becker">>]>>]

\* a table of the store: <<>> when the store has no such table
Opt(S) == {<<>>} \cup {<<t>> : t \in S}

MkStore(demo, diag, enc) ==
    LET t == [demographics_maindata |-> demo, diagnosis_maindata |-> diag,
              encounter_maindata |-> enc]
    IN [n \in {m \in FormNames : t[m] # <<>>} |-> t[n][1]]

\* no call in progress: the caller has taken the last outcome
Idle == Ok("idle", <<>>, <<>>)

\* manager.py:112-126  CohortManager.__init__ on the given store
Construct(store) ==
    /\ mappings = <<>>
    /\ tables = StoreAfterPrepare(store)
    /\ demographics_with_age = PrepareDemographics(store)
    /\ cohorts = <<>>
    /\ call = Idle
    /\ log = <<>>

\* the caller consumes the outcome of the last call
Return ==
    /\ call.op # "idle"
    /\ call' = Idle
    /\ UNCHANGED <<tables, mappings, demographics_with_age, cohorts, log>>

\* required_forms lists of at most MaxForms distinct names, and the default
FormLists ==
    UNION {{l \in [1..n -> FormNames] : \A i, j \in 1..n : l[i] = l[j] => i = j}
           : n \in 0..MaxForms} \cup {DefaultForms}

\* a filter value: its shape and its elements (one element for a scalar)
Scalar(v) == [kind |-> "scalar", v |-> <<v>>]

List(v) == [kind |-> "list", v |-> v]

FieldFilters ==
    {<<"registry", Scalar("True")>>, <<"registry", Scalar("False")>>,
     <<"disease", Scalar("DMD")>>, <<"disease", List(<<"DMD", "BMD">>)>>,
     <<"gender", Scalar("F")>>}

\* filters: None or a dict, as the sequence of its items in insertion order
FilterDicts ==
    {<<>>} \cup {<<f>> : f \in FieldFilters}
    \cup {fg \in FieldFilters \X FieldFilters : fg[1][1] # fg[2][1]}

\* custom_filter: None, or a predicate keeping the rows at the given positions
NoCustom == [given |-> FALSE, keep |-> {}]

Custom(K) == [given |-> TRUE, keep |-> K]

(* -------------------- specification: enrollment calls ------------------- *)

InitEnroll ==
    \E demo \in Opt(IdTables), diag \in Opt(IdTables), enc \in Opt(IdTables) :
        Construct(MkStore(demo, diag, enc))

NextEnroll ==
    \/ /\ call.op = "idle"
       /\ UNCHANGED log
       /\ \/ \E forms \in FormLists : GetEnrolledPatients(forms)
          \/ \E forms \in FormLists : ValidateEnrollment(forms)
    \/ Return

SpecEnroll == InitEnroll /\ [][NextEnroll]_vars

(* --------------------- specification: a manager session ----------------- *)

CohortNames == {"base", "a"}

SessionFilters ==
    {<<>>, <<<<"disease", Scalar("DMD")>>>>, <<<<"registry", Scalar("True")>>>>,
     <<<<"gender", Scalar("F")>>, <<"registry", Scalar("False")>>>>}

SessionCustoms == {NoCustom, Custom({2})}

Init ==
    \E demo \in Opt(SessionDemoTables), diag \in Opt({FullTable}) :
        Construct(MkStore(demo, diag, <<>>) @@ ("disease_lookup" :> ReferenceTable))

Next ==
    \/ /\ call.op = "idle"
       /\ UNCHANGED log
       /\ \/ \E name \in CohortNames, validate \in BOOLEAN :
                CreateBaseCohort(name, DefaultForms, validate)
          \/ \E name \in CohortNames :
                CreateBaseCohort(name, <<"diagnosis_maindata">>, TRUE)
          \/ \E src \in CohortNames, name \in CohortNames,
                filters \in SessionFilters, custom \in SessionCustoms :
                FilterCohort(src, name, filters, custom)
          \/ \E name \in CohortNames : GetCohort(name)
          \/ ListCohorts
          \/ \E name \in CohortNames, demo \in BOOLEAN : GetCohortData(name, demo)
          \/ \E name \in CohortNames,
                requested \in {<<>>, <<<<"demographics_maindata", "labs_maindata">>>>} :
                GetFilteredTables(name, requested)
          \/ \E name \in CohortNames : GetCohortSummary(name)
          \/ \E name \in CohortNames, path \in {"cohort.csv", "cohort.txt"} :
                ExportCohort(name, path)
    \/ Return

Spec == Init /\ [][Next]_vars

(* ------------- specification: filter calls to be compared -------------- *)

CompareFilters ==
    {<<>>} \cup {<<f>> : f \in FieldFilters}
    \cup {<<<<"disease", Scalar("DMD")>>, <<"registry", Scalar("False")>>>>,
          <<<<"disease", Scalar("DMD")>>, <<"gender", Scalar("F")>>>>}

\* manager.py:268-275  the columns of the frame the filters work on
WorkingColumns ==
    IF ~Empty(GetDemographics)
    THEN Merge(CohortFrame(<<>>), GetDemographics).columns
    ELSE CohortFrame(<<>>).columns

\* the dict without its i-th item
Remove(filters, i) == SubSeq(filters, 1, i - 1) \o SubSeq(filters, i + 1, Len(filters))

Logged(step) == step /\ log' = Append(log, call')

InitCompare ==
    \E demo \in Opt(DemoTables), diag \in Opt({FullTable}) :
        Construct(MkStore(demo, diag, <<>>))

\* the base cohort
CreateBase ==
    /\ Len(log) = 0
    /\ \E validate \in BOOLEAN :
          Logged(CreateBaseCohort("base", <<"diagnosis_maindata">>, validate))

\* a first filter call base -> a
FilterFirst ==
    /\ Len(log) = 1
    /\ \E filters \in CompareFilters, custom \in {NoCustom, Custom({2})} :
          Logged(FilterCohort("base", "a", filters, custom))

\* the same call again, under another name: base -> b
FilterAgain ==
    /\ Len(log) = 2
    /\ Logged(FilterCohort("base", "b", log[2].args.filters, log[2].args.custom_filter))

\* the other side of a registry split: base -> b
FilterOtherRegistry ==
    /\ Len(log) = 2
    /\ log[2].args.filters = <<<<"registry", Scalar("True")>>>>
    /\ ~log[2].args.custom_filter.given
    /\ Logged(FilterCohort("base", "b", <<<<"registry", Scalar("False")>>>>, NoCustom))

\* the first call without one of its entries whose field resolves to no
\* column: base -> b
FilterWithout ==
    /\ Len(log) = 2
    /\ \E i \in DOMAIN log[2].args.filters :
          /\ ResolveFilterField(log[2].args.filters[i][1], WorkingColumns) = None
          /\ Logged(FilterCohort("base", "b", Remove(log[2].args.filters, i),
                                 log[2].args.custom_filter))

\* a second filter on the result of the first: a -> b
FilterChained ==
    /\ Len(log) = 2
    /\ Len(log[2].args.filters) = 1
    /\ ~log[2].args.custom_filter.given
    /\ \E g \in FieldFilters :
          /\ g[1] # log[2].args.filters[1][1]
          /\ Logged(FilterCohort("a", "b", <<g>>, NoCustom))

\* both filters of a chain in one call: base -> c
FilterBoth ==
    /\ Len(log) = 3
    /\ log[3].op = "filter_cohort"
    /\ log[3].args.source_cohort = "a"
    /\ Logged(FilterCohort("base", "c", log[2].args.filters \o log[3].args.filters, NoCustom))

\* the summary of the source of a registry split: base
SummarizeSource ==
    /\ Len(log) = 3
    /\ log[3].op = "filter_cohort"
    /\ log[2].args.filters = <<<<"registry", Scalar("True")>>>>
    /\ log[3].args.filters = <<<<"registry", Scalar("False")>>>>
    /\ Logged(GetCohortSummary("base"))

\* the summary of the cohort the last filter call stored, when the first
\* call filtered by disease
SummarizeResult ==
    /\ Len(log) \in 2..3
    /\ log[Len(log)].op = "filter_cohort"
    /\ Len(log) = 3 => log[3].args.source_cohort = "a"
    /\ Len(log[2].args.filters) = 1
    /\ log[2].args.filters[1][1] = "disease"
    /\ Logged(GetCohortSummary(log[Len(log)].args.name))

NextCompare ==
    \/ CreateBase
    \/ FilterFirst
    \/ FilterAgain
    \/ FilterOtherRegistry
    \/ FilterWithout
    \/ FilterChained
    \/ FilterBoth
    \/ SummarizeSource
    \/ SummarizeResult

SpecCompare == InitCompare /\ [][NextCompare]_vars

(* ------------- specification: the shapes of a filter value ------------- *)

\* filter values of the other shapes
Dict(v) == [kind |-> "dict", v |-> v]

Pair(a, b) == [kind |-> "tuple", v |-> <<a, b>>]

\* demographics with an age column
AgeTables ==
    DemoTablesOver(<<"FACPATID", "AGE">>,
                   <<[AGE |-> <<10>>], [AGE |-> <<18>>], [AGE |-> <<30>>], [AGE |-> NaN]>>)

\* demographics with a registry column of booleans, numbers and nulls
RegistryTables ==
    DemoTablesOver(<<"FACPATID", "usndr">>,
                   <<[usndr |-> <<"True">>], [usndr |-> <<"False">>],
                     [usndr |-> <<"1">>], [usndr |-> <<"0">>], [usndr |-> NaN]>>)

\* age filters: a value of every shape
AgeValues ==
    <<Dict(<<>>), Dict([min |-> 18]), Dict([max |-> 18]), Dict([min |-> 10, max |-> 18]),
      Dict([min |-> 30, max |-> 10]), Pair(10, 18), Pair(18, 18), List(<<10, 30>>),
      List(<<>>), Scalar(18), [kind |-> "scalar", v |-> NaN]>>

\* registry filter values: True, the two names, and values that are neither
RegistryValues ==
    <<Scalar("True"), Scalar("usndr"), Scalar("USNDR"), Scalar("False"), Scalar(None),
      Scalar(""), Scalar("datahub"), Scalar("1"), Scalar("0"), List(<<>>)>>

InitValues ==
    \E demo \in AgeTables \cup RegistryTables :
        Construct(MkStore(<<demo>>, <<FullTable>>, <<>>))

NextValues ==
    \/ /\ call.op = "idle"
       /\ UNCHANGED log
       /\ \/ CreateBaseCohort("base", <<"diagnosis_maindata">>, TRUE)
          \/ \E i \in DOMAIN AgeValues :
                FilterCohort("base", "a", <<<<"age", AgeValues[i]>>>>, NoCustom)
          \/ \E i \in DOMAIN RegistryValues :
                FilterCohort("base", "a", <<<<"registry", RegistryValues[i]>>>>, NoCustom)
    \/ Return

SpecValues == InitValues /\ [][NextValues]_vars

(* ------------- specification: field resolution with a config ---------- *)

\* column names a demographics table may carry besides the identifier
ColumnPool == <<"dstype", "disease", "DISEASE", "DIAGNOSIS", "dx", "gender", "SEX", "AGE", "age">>

\* the column lists: the identifier and at most MaxColumns further columns
ColumnLists ==
    UNION {{<<"FACPATID">> \o l : l \in {m \in [1..n -> ToSet(ColumnPool)] :
                                            \A i, j \in 1..n : m[i] = m[j] => i = j}}
           : n \in 0..MaxColumns}

\* field_mappings.yaml as loaded by _load_mappings: canonical name -> source
\* field, None for an entry without one
MappingSets ==
    {<<>>, [disease |-> "dx"], [disease |-> "DIAGNOSIS", gender |-> "SEX"],
     [disease |-> None], [age |-> "dx"]}

\* one demographics row per patient; the cell depends on patient and column
ConfiguredTable(columns) ==
    LET Position(c) == CHOOSE k \in DOMAIN ColumnPool : ColumnPool[k] = c
    IN [columns |-> columns,
        rows |-> [p \in 1..NumPatients |->
                    [c \in ToSet(columns) |->
                        IF c = "FACPATID" THEN <<p>>
                        ELSE IF (p + Position(c)) % 2 = 0 THEN <<"DMD">> ELSE <<"BMD">>]]]

CanonicalNames == {"disease", "gender", "age", "registry"}

\* manager.py:36-66, 112-126  a manager whose resolver has loaded a config
InitResolve ==
    \E columns \in ColumnLists, m \in MappingSets :
        /\ mappings = m
        /\ tables = StoreAfterPrepare(MkStore(<<ConfiguredTable(columns)>>, <<>>, <<>>))
        /\ demographics_with_age = PrepareDemographics(tables)
        /\ cohorts = <<>>
        /\ call = Idle
        /\ log = <<>>

\* manager.py:68-102  FieldResolver.resolve on the demographics frame
Resolve(canonical_name) ==
    /\ call' = Ok("resolve", [canonical_name |-> canonical_name],
                  resolve(canonical_name, GetDemographics.columns))
    /\ UNCHANGED cohorts
    /\ Frozen

NextResolve ==
    \/ /\ call.op = "idle"
       /\ UNCHANGED log
       /\ \/ \E canonical_name \in CanonicalNames : Resolve(canonical_name)
          \/ CreateBaseCohort("base", DefaultForms, FALSE)
          \/ \E field \in {"disease", "gender"}, v \in {"DMD", "BMD"} :
                FilterCohort("base", "a", <<<<field, Scalar(v)>>>>, NoCustom)
    \/ Return

SpecResolve == InitResolve /\ [][NextResolve]_vars

(* --------------------- the helper scripts (scripts/) -------------------- *)

\* str.upper on the disease codes of the cohort definitions
Upper(s) ==
    LET low == [dmd |-> "DMD", sma |-> "SMA"]
    IN IF s \in DOMAIN low THEN low[s] ELSE s

\* exploratory_interpreter.py:45  the name of a cohort created without a name
ExploratoryName(disease, registry) ==
    "exploratory_" \o Lower(disease) \o "_" \o (IF registry THEN "usndr" ELSE "datahub")

\* name or f"exploratory_...": an explicit name <<n>> wins over the default
CohortNameFor(disease, registry, name) ==
    IF name # <<>> /\ name[1] # "" THEN name[1] ELSE ExploratoryName(disease, registry)

\* the registry flag as a filter value
Bool(b) == Scalar(IF b THEN "True" ELSE "False")

\* exploratory_interpreter.py:49  {'disease': disease, 'registry': registry}
DiseaseFilters(disease, registry) ==
    <<<<"disease", Scalar(disease)>>, <<"registry", Bool(registry)>>>>

\* dict.pop(name, None)
Pop(map, name) == [n \in DOMAIN map \ {name} |-> map[n]]

\* manager.py:234-324  filter_cohort on the mapping map: its outcome and the
\* mapping it leaves
FilterOutcome(map, source_cohort, name, filters) ==
    IF source_cohort \notin DOMAIN map
    THEN [status |-> "ValueError", message |-> "Source cohort not found", cohorts |-> map]
    ELSE [status |-> "ok", message |-> "",
          cohorts |-> Put(map, name, FilterResult(map[source_cohort], filters, NoCustom))]

\* exploratory_interpreter.py:40-52  create_cohort on the mapping map
CreateCohortOutcome(map, disease, registry, name, force) ==
    LET cohort_name == CohortNameFor(disease, registry, name)
    IN IF cohort_name \in DOMAIN map /\ ~force
       THEN [status |-> "RuntimeError", message |-> "already exists", cohorts |-> map]
       ELSE FilterOutcome(map, "base", cohort_name, DiseaseFilters(disease, registry))

\* exploratory_interpreter.py:40-52  create_cohort
CreateCohort(disease, registry, name, force) ==
    LET args == [disease |-> disease, registry |-> registry, name |-> name, force |-> force]
        out == CreateCohortOutcome(cohorts, disease, registry, name, force)
    IN /\ cohorts' = out.cohorts
       /\ call' = [op |-> "create_cohort", args |-> args, status |-> out.status,
                   message |-> out.message,
                   value |-> IF out.status = "ok"
                             THEN <<CohortNameFor(disease, registry, name)>> ELSE <<>>]
       /\ Frozen

\* name_template.format(disease=d) for the templates of the session
FormatTemplate(name_template, d) ==
    IF name_template = <<>> THEN <<>>
    ELSE IF name_template[1] = "x_{disease}" THEN <<"x_" \o d>>
    ELSE name_template

\* exploratory_interpreter.py:61-66  the loop of create_cohorts from its k-th
\* disease on: an exception of create_cohort ends it
RECURSIVE CreateCohortsFrom(_, _, _, _, _, _, _)
CreateCohortsFrom(map, created, diseases, k, registry, name_template, force) ==
    IF k > Len(diseases)
    THEN [status |-> "ok", message |-> "", cohorts |-> map, created |-> created]
    ELSE LET name == FormatTemplate(name_template, diseases[k])
             out == CreateCohortOutcome(map, diseases[k], registry, name, force)
         IN IF out.status # "ok"
            THEN [status |-> out.status, message |-> out.message,
                  cohorts |-> out.cohorts, created |-> created]
            ELSE CreateCohortsFrom(out.cohorts,
                                   Append(created, CohortNameFor(diseases[k], registry, name)),
                                   diseases, k + 1, registry, name_template, force)

\* exploratory_interpreter.py:55-66  create_cohorts
CreateCohorts(diseases, registry, name_template, force) ==
    LET args == [diseases |-> diseases, registry |-> registry,
                 name |-> name_template, force |-> force]
        out == CreateCohortsFrom(cohorts, <<>>, diseases, 1, registry, name_template, force)
    IN /\ cohorts' = out.cohorts
       /\ call' = [op |-> "create_cohorts", args |-> args, status |-> out.status,
                   message |-> out.message, value |-> out.created]
       /\ Frozen

\* exploratory_interpreter.py:31-37  _init_env: the base cohort of a new session
InitEnv ==
    /\ "base" \notin DOMAIN cohorts
    /\ CreateBaseCohort("base", DefaultForms, TRUE)

\* the order of sorted() on the disease codes
DiseaseOrder == <<"DMD", "SMA">>

\* the disease codes the templates of the cohort definitions filter on
TemplateDiseases(defs) == UNION {ToSet(defs[i].disease) : i \in DOMAIN defs}

Sorted(S) == Filter(DiseaseOrder, LAMBDA d, i : d \in S)

\* make_exploratory_cohort.py:48  the --registry text as a flag
RegistryFlag(text) == Lower(text) \in {"1", "true", "t", "yes", "y"}

\* make_exploratory_cohort.py:61-79  the diseases main creates cohorts for;
\* --diseases is given by its comma separated parts
DiseasesToCreate(args) ==
    IF args.all_diseases
    THEN IF TemplateDiseases(args.defs) # {}
         THEN Sorted(TemplateDiseases(args.defs)) ELSE <<args.disease>>
    ELSE IF args.diseases # <<>>
    THEN Filter(args.diseases[1], LAMBDA d, i : d # "")
    ELSE <<args.disease>>

\* make_exploratory_cohort.py:91-101  the source cohort for disease d: the
\* name of the first template that filters on d, else base
SourceFor(defs, d) ==
    LET hits == Filter(defs, LAMBDA c, i : d \in ToSet(c.disease))
    IN IF hits # <<>> THEN hits[1].name ELSE "base"

\* make_exploratory_cohort.py:103-106
FiltersFor(source_name, d, registry_flag) ==
    IF source_name = "base" THEN DiseaseFilters(d, registry_flag)
    ELSE <<<<"registry", Bool(registry_flag)>>>>

\* make_exploratory_cohort.py:47-58  main up to its loop: a new manager on
\* the loaded tables and its base cohort
MainStart(args) ==
    LET out == EnrolledOutcome(DefaultForms)
    IN /\ cohorts = <<>>
       /\ IF out.status = "ok"
          THEN /\ \E enrolled \in Orderings(out.value) :
                     cohorts' = Put(cohorts, "base", enrolled)
               /\ call' = [op |-> "main", args |-> args, status |-> "running",
                           message |-> "", value |-> <<>>]
          ELSE /\ call' = Raise("main", args, out.status)
               /\ UNCHANGED cohorts
       /\ Frozen

\* make_exploratory_cohort.py:87-113  one iteration of main's loop, for the
\* disease after those already created
MainStep ==
    LET args == call.args
        todo == DiseasesToCreate(args)
        d == todo[Len(call.value) + 1]
        registry_flag == RegistryFlag(args.registry)
        cohort_name_local == CohortNameFor(d, registry_flag, args.name)
        source_name_local == SourceFor(args.defs, d)
        popped == IF cohort_name_local \in DOMAIN cohorts /\ args.force
                  THEN Pop(cohorts, cohort_name_local) ELSE cohorts
        out == FilterOutcome(popped, source_name_local, cohort_name_local,
                             FiltersFor(source_name_local, d, registry_flag))
        created == Append(call.value, cohort_name_local)
    IN /\ call.op = "main"
       /\ call.status = "running"
       /\ cohorts' = out.cohorts
       /\ call' = IF out.status # "ok"
                  THEN [call EXCEPT !.status = out.status, !.message = out.message]
                  ELSE [call EXCEPT !.value = created,
                                    !.status = IF Len(created) = Len(todo)
                                               THEN "ok" ELSE "running"]
       /\ Frozen

\* make_all_disease_cohorts.py:43-66  the disease codes of the definitions,
\* in upper case and sorted
ReadDiseasesFromConfig(defs) == Sorted({Upper(d) : d \in TemplateDiseases(defs)})

\* make_all_disease_cohorts.py:91-112  the loop of create_all_disease_cohorts
\* from its k-th disease on: an existing cohort is skipped without force, an
\* exception is printed and the loop goes on
RECURSIVE CreateAllFrom(_, _, _, _, _, _)
CreateAllFrom(map, created, diseases, k, registry, force) ==
    IF k > Len(diseases) THEN [cohorts |-> map, created |-> created]
    ELSE LET name == ExploratoryName(diseases[k], registry)
             out == FilterOutcome(map, "base", name, DiseaseFilters(diseases[k], registry))
         IN IF (name \in DOMAIN map /\ ~force) \/ out.status # "ok"
            THEN CreateAllFrom(map, created, diseases, k + 1, registry, force)
            ELSE CreateAllFrom(out.cohorts, Append(created, name),
                               diseases, k + 1, registry, force)

\* make_all_disease_cohorts.py:69-114  create_all_disease_cohorts on the
\* session's manager
CreateAllDiseaseCohorts(force, registry, defs) ==
    LET args == [force |-> force, registry |-> registry, defs |-> defs, name |-> <<>>]
        base == EnrolledOutcome(DefaultForms)
        Loop(map) ==
            LET out == CreateAllFrom(map, <<>>, ReadDiseasesFromConfig(defs), 1,
                                     registry, force)
            IN /\ cohorts' = out.cohorts
               /\ call' = Ok("create_all_disease_cohorts", args, out.created)
    IN /\ IF "base" \in DOMAIN cohorts THEN Loop(cohorts)
          ELSE IF base.status = "ok"
          THEN \E enrolled \in Orderings(base.value) : Loop(Put(cohorts, "base", enrolled))
          ELSE /\ call' = Raise("create_all_disease_cohorts", args, base.status)
               /\ UNCHANGED cohorts
       /\ Frozen

(* --------------- specification: sessions of the helper scripts ---------- *)

\* demographics of the scripts' sessions: a disease and a registry column
ScriptDemoTables ==
    DemoTablesOver(<<"FACPATID", "dstype", "usndr">>,
                   <<[dstype |-> <<"DMD">>, usndr |-> <<"True">>],
                     [dstype |-> <<"DMD">>, usndr |-> <<"False">>],
                     [dstype |-> <<"SMA">>, usndr |-> NaN]>>)

Diseases == {"DMD", "SMA"}

\* the cohort templates of config/cohort_definitions.yaml: none, one that
\* filters on DMD, one named base that filters on SMA
Definitions ==
    {<<>>, <<[name |-> "dmd_all", disease |-> <<"DMD">>]>>,
     <<[name |-> "base", disease |-> <<"SMA">>]>>}

\* the command lines of make_exploratory_cohort.py
MainArgs ==
    [disease : Diseases, diseases : {<<>>}, all_diseases : {FALSE},
     registry : {"False", "True"}, name : {<<>>, <<"base">>, <<"x">>},
     force : BOOLEAN, defs : {<<>>}]
    \cup [disease : {"DMD"}, diseases : {<<<<"DMD", "SMA">>>>, <<<<"SMA", "">>>>},
          all_diseases : {FALSE}, registry : {"False", "0"}, name : {<<>>, <<"x">>},
          force : BOOLEAN, defs : {<<>>}]
    \cup [disease : Diseases, diseases : {<<>>}, all_diseases : BOOLEAN,
          registry : {"False"}, name : {<<>>}, force : {FALSE},
          defs : Definitions]

InitScripts ==
    \E demo \in ScriptDemoTables :
        Construct(MkStore(<<demo>>, <<FullTable>>, <<FullTable>>))

NextScripts ==
    \/ /\ call.op = "idle"
       /\ UNCHANGED log
       /\ \/ InitEnv
          \/ \E disease \in Diseases, force \in BOOLEAN :
                CreateCohort(disease, FALSE, <<>>, force)
          \/ \E name \in {<<>>, <<"x">>}, force \in BOOLEAN :
                CreateCohort("DMD", TRUE, name, force)
          \/ \E name_template \in {<<>>, <<"x">>, <<"x_{disease}">>}, force \in BOOLEAN :
                CreateCohorts(<<"DMD", "SMA">>, FALSE, name_template, force)
          \/ \E force \in BOOLEAN, defs \in Definitions :
                CreateAllDiseaseCohorts(force, FALSE, defs)
          \/ \E args \in MainArgs : MainStart(args)
    \/ MainStep /\ UNCHANGED log
    \/ call.status # "running" /\ Return

SpecScripts == InitScripts /\ [][NextScripts]_vars

(* ------------- specification: ages derived from birth dates ------------ *)

\* demographics with a birth date: parseable, unparseable or null
DobTables ==
    DemoTablesOver(<<"FACPATID", "dob", "dstype">>,
                   <<[dob |-> <<"y2010">>, dstype |-> <<"DMD">>],
                     [dob |-> <<"y1980">>, dstype |-> <<"BMD">>],
                     [dob |-> <<"unknown">>, dstype |-> <<"DMD">>],
                     [dob |-> NaN, dstype |-> <<"DMD">>]>>)

\* age filters on the derived ages
DerivedAgeValues == <<Dict([max |-> Today - 2010]), Dict([min |-> Today - 1980])>>

InitAge ==
    \E demo \in DobTables, diag \in Opt({FullTable}) :
        Construct(MkStore(<<demo>>, diag, <<>>))

NextAge ==
    \/ /\ call.op = "idle"
       /\ UNCHANGED log
       /\ \/ \E validate \in BOOLEAN :
                CreateBaseCohort("base", <<"diagnosis_maindata">>, validate)
          \/ \E src \in CohortNames, v \in {"DMD", "BMD"} :
                FilterCohort(src, "a", <<<<"disease", Scalar(v)>>>>, NoCustom)
          \/ \E i \in DOMAIN DerivedAgeValues :
                FilterCohort("base", "a", <<<<"age", DerivedAgeValues[i]>>>>, NoCustom)
          \/ \E name \in CohortNames : GetCohortSummary(name)
          \/ GetCohortData("a", TRUE)
          \/ \E requested \in {<<>>, <<<<>>>>,
                                <<<<"demographics_maindata", "labs_maindata">>>>} :
                GetFilteredTables("a", requested)
    \/ Return

SpecAge == InitAge /\ [][NextAge]_vars

(* -------------------------------- claims -------------------------------- *)

FilterDone(c) == c.op = "filter_cohort" /\ c.status = "ok"

\* the patients with at least one row in table t
PatientsOf(t) == {p \in Patients : \E i \in DOMAIN t.rows : t.rows[i]["FACPATID"] = <<p>>}

\* the patients of a form, a form absent from the store having none
FormSet(f) == IF f \in DOMAIN tables THEN PatientsOf(tables[f]) ELSE {}

\* C1: a successful filter_cohort stores a subset of the patients the source
\* cohort had when the call started
C1_FilterIsSubset ==
    [][FilterDone(call') =>
         ToSet(cohorts'[call'.args.name]) \subseteq ToSet(cohorts[call'.args.source_cohort])]_vars

C1_Witness ==
    /\ FilterDone(call)
    /\ call.args.custom_filter.given
    /\ call.args.filters # <<>>
    /\ call.args.name # call.args.source_cohort
    /\ ToSet(cohorts[call.args.name]) # {}
    /\ ToSet(cohorts[call.args.name]) # ToSet(cohorts[call.args.source_cohort])

IsChain ==
    /\ Len(log) = 4
    /\ \A i \in 2..4 : FilterDone(log[i])
    /\ log[3].args.source_cohort = "a"
    /\ log[4].args.filters = log[2].args.filters \o log[3].args.filters

\* C2: filtering by f1 and then filtering the result by f2 gives the patient
\* set of one call with both filters, for every demographics table
C2_ChainEqualsSingleCall ==
    IsChain => ToSet(cohorts["b"]) = ToSet(cohorts["c"])

IsSplit ==
    /\ Len(log) = 3
    /\ \A i \in 2..3 : FilterDone(log[i])
    /\ log[2].args.filters = <<<<"registry", Scalar("True")>>>>
    /\ log[3].args.filters = <<<<"registry", Scalar("False")>>>>
    /\ ~log[2].args.custom_filter.given

RegistryResolves ==
    /\ ~Empty(GetDemographics)
    /\ ResolveFilterField("registry", GetDemographics.columns) # None

\* patient p has a demographics row with registry True and one without
Straddles(p) ==
    LET rows == GetDemographics.rows
    IN \E i, j \in DOMAIN rows :
          /\ rows[i]["FACPATID"] = <<p>> /\ rows[j]["FACPATID"] = <<p>>
          /\ rows[i]["usndr"] = <<"True">> /\ rows[j]["usndr"] # <<"True">>

IsRepeat ==
    /\ Len(log) = 3
    /\ \A i \in 2..3 : FilterDone(log[i])
    /\ log[3].args.source_cohort = log[2].args.source_cohort
    /\ log[3].args.filters = log[2].args.filters
    /\ log[3].args.custom_filter = log[2].args.custom_filter
    /\ log[3].args.name # log[2].args.name

EnrolledCall == call.op = "get_enrolled_patients"

\* C5: with every required form in the store, get_enrolled_patients returns
\* exactly the patients that appear in every required form, each once
C5_EnrolledInEveryForm ==
    (/\ EnrolledCall
     /\ call.args.required_forms # <<>>
     /\ ToSet(call.args.required_forms) \subseteq DOMAIN tables)
    => /\ call.status = "ok"
       /\ ToSet(call.value) =
             {p \in Patients : \A f \in ToSet(call.args.required_forms) :
                                  p \in PatientsOf(tables[f])}
       /\ NoDuplicates(call.value)

C5_Witness ==
    /\ EnrolledCall
    /\ call.args.required_forms = DefaultForms
    /\ ToSet(DefaultForms) \subseteq DOMAIN tables
    /\ call.status = "ok"
    /\ call.value # <<>>
    /\ \E p \in Patients, f, g \in ToSet(DefaultForms) :
          p \in PatientsOf(tables[f]) /\ p \notin PatientsOf(tables[g])
    /\ \E f \in ToSet(DefaultForms) : \E i, j \in DOMAIN tables[f].rows :
          i # j /\ tables[f].rows[i] = tables[f].rows[j]

\* C6: get_enrolled_patients intersects the required forms that are in the
\* store and fails exactly when none of them is
C6_AbsentFormsSkipped ==
    EnrolledCall =>
        LET present == ToSet(call.args.required_forms) \cap DOMAIN tables
        IN /\ call.status = "ValueError" <=> present = {}
           /\ call.status # "ValueError" =>
                 /\ call.status = "ok"
                 /\ ToSet(call.value) =
                       {p \in Patients : \A f \in present : p \in PatientsOf(tables[f])}

C6_Witness ==
    /\ EnrolledCall
    /\ call.status = "ok"
    /\ call.value # <<>>
    /\ \E f \in ToSet(call.args.required_forms) : f \notin DOMAIN tables
    /\ \E f \in ToSet(call.args.required_forms) :
          f \in DOMAIN tables /\ PatientsOf(tables[f]) # Patients

\* C7: validate_enrollment always returns a report; its counts are those of
\* the union and the intersection of the per-form sets, absent forms empty
C7_ReportCounts ==
    call.op = "validate_enrollment" =>
        LET forms == ToSet(call.args.required_forms)
            report == call.value
            universe == UNION {FormSet(f) : f \in forms}
            enrolled == {p \in universe : \A f \in forms : p \in FormSet(f)}
        IN /\ call.status = "ok"
           /\ report.total_unique_patients = Cardinality(universe)
           /\ report.enrolled_count = Cardinality(enrolled)
           /\ report.enrolled_patients = enrolled
           /\ DOMAIN report.form_counts = forms
           /\ DOMAIN report.missing_by_form = forms
           /\ \A f \in forms :
                 /\ report.form_counts[f] = Cardinality(FormSet(f))
                 /\ report.missing_by_form[f]
                       = report.total_unique_patients - report.form_counts[f]
           /\ forms \cap DOMAIN tables = {} =>
                 /\ report.total_unique_patients = 0
                 /\ report.enrolled_count = 0

C7_Witness ==
    /\ call.op = "validate_enrollment"
    /\ \E f, g \in ToSet(call.args.required_forms) :
          /\ f \notin DOMAIN tables
          /\ g \in DOMAIN tables
          /\ call.value.missing_by_form[f] = NumPatients
          /\ call.value.form_counts[g] = NumPatients
    /\ call.value.enrolled_count = 0

NamedOps ==
    {"filter_cohort", "get_cohort", "get_cohort_data", "get_filtered_tables",
     "get_cohort_summary", "export_cohort"}

\* the existing cohort a call names
NamedCohort(c) == IF c.op = "filter_cohort" THEN c.args.source_cohort ELSE c.args.name

NotFound(c) ==
    c.status = "ValueError" /\ c.message \in {"Cohort not found", "Source cohort not found"}

\* C8: an operation on a cohort name that is not in the mapping fails with a
\* not-found error and leaves the mapping as it was
C8_UnknownCohortNotFound ==
    [][(call'.op \in NamedOps /\ NamedCohort(call') \notin DOMAIN cohorts)
          => NotFound(call') /\ cohorts' = cohorts]_vars

C8_Witness ==
    /\ call.op = "filter_cohort"
    /\ NotFound(call)
    /\ call.args.source_cohort \notin DOMAIN cohorts
    /\ call.args.name \notin DOMAIN cohorts
    /\ DOMAIN cohorts # {}

\* C9 as stated: a successful filter_cohort leaves every cohort that existed
\* before the call, the source included, with the patient set it had
C9_ExistingCohortsKeepPatients ==
    [][FilterDone(call') =>
         \A n \in DOMAIN cohorts : ToSet(cohorts'[n]) = ToSet(cohorts[n])]_vars

\* C9 amended: a successful filter_cohort changes the mapping at the target
\* name only; a cohort already stored under the target name, the source
\* included when it is the target, is replaced by the result
C9_OnlyTargetNameChanges ==
    [][FilterDone(call') =>
         /\ DOMAIN cohorts' = DOMAIN cohorts \cup {call'.args.name}
         /\ \A n \in DOMAIN cohorts \ {call'.args.name} : cohorts'[n] = cohorts[n]
         /\ cohorts'[call'.args.name] = call'.value]_vars

C9_Witness ==
    /\ FilterDone(call)
    /\ call.args.name = call.args.source_cohort
    /\ call.args.filters # <<>>
    /\ cohorts[call.args.name] = <<>>
    /\ \E n \in DOMAIN cohorts : n # call.args.name /\ cohorts[n] # <<>>

\* C10: no cohort of the mapping holds a patient identifier twice
C10_NoDuplicatePatients ==
    \A n \in DOMAIN cohorts : NoDuplicates(cohorts[n])

C10_Witness ==
    /\ FilterDone(call)
    /\ "demographics_maindata" \in DOMAIN tables
    /\ \E p \in ToSet(cohorts[call.args.name]) :
          \E i, j \in DOMAIN tables["demographics_maindata"].rows :
              /\ i # j
              /\ tables["demographics_maindata"].rows[i]["FACPATID"] = <<p>>
              /\ tables["demographics_maindata"].rows[j]["FACPATID"] = <<p>>
    /\ \E n \in DOMAIN cohorts : n # call.args.name /\ Len(cohorts[n]) = NumPatients

BaseCall(c) == c.op = "create_base_cohort"

\* the forms of a list that are in the store
Present(forms) == ToSet(forms) \cap DOMAIN tables

\* C11: a successful create_base_cohort stores under name the patients of
\* every required form in the store when validate_enrollment is true and the
\* distinct patients of the demographics table when it is false, replaces a
\* cohort already stored under name and changes no other cohort
C11_BaseCohortStored ==
    [][(BaseCall(call') /\ call'.status = "ok") =>
         LET name == call'.args.name
             forms == call'.args.require_forms
         IN /\ DOMAIN cohorts' = DOMAIN cohorts \cup {name}
            /\ \A n \in DOMAIN cohorts \ {name} : cohorts'[n] = cohorts[n]
            /\ cohorts'[name] = call'.value
            /\ NoDuplicates(cohorts'[name])
            /\ call'.args.validate_enrollment =>
                  /\ EnrolledOutcome(forms).status = "ok"
                  /\ ToSet(cohorts'[name]) = EnrolledOutcome(forms).value
                  /\ ToSet(cohorts'[name]) =
                        {p \in Patients : \A f \in Present(forms) : p \in FormSet(f)}
            /\ ~call'.args.validate_enrollment =>
                  ToSet(cohorts'[name]) = FormSet("demographics_maindata")]_vars

C11_Witness ==
    /\ BaseCall(call)
    /\ call.status = "ok"
    /\ call.args.validate_enrollment
    /\ call.args.require_forms = <<"diagnosis_maindata">>
    /\ "demographics_maindata" \in DOMAIN tables
    /\ ToSet(cohorts[call.args.name]) # FormSet("demographics_maindata")
    /\ \E n \in DOMAIN cohorts :
          /\ n # call.args.name
          /\ cohorts[n] # <<>>
          /\ ToSet(cohorts[n]) # ToSet(cohorts[call.args.name])

\* create_base_cohort has nothing to build the cohort from
NothingToEnroll(c) ==
    IF c.args.validate_enrollment
    THEN Present(c.args.require_forms) = {}
    ELSE "demographics_maindata" \notin DOMAIN tables

\* C12: create_base_cohort fails exactly when validate_enrollment is false and
\* the demographics table is absent, or it is true and no required form is in
\* the store; a failed call leaves the mapping as it was
C12_BaseCohortFailure ==
    [][BaseCall(call') =>
         /\ call'.status = "ValueError" <=> NothingToEnroll(call')
         /\ call'.status # "ValueError" => call'.status = "ok"
         /\ call'.status = "ValueError" => cohorts' = cohorts]_vars

C12_Witness ==
    /\ BaseCall(call)
    /\ call.status = "ValueError"
    /\ call.args.validate_enrollment
    /\ call.message = "No required forms found in tables"
    /\ call.args.name \in DOMAIN cohorts
    /\ cohorts[call.args.name] # <<>>

Unresolved(field) == ResolveFilterField(field, WorkingColumns) = None

\* the third call is the second without its i-th entry, whose field resolves
\* to no column of the working frame
IsRemoval(i) ==
    /\ Len(log) = 3
    /\ \A k \in 2..3 : FilterDone(log[k])
    /\ log[3].args.source_cohort = log[2].args.source_cohort
    /\ i \in DOMAIN log[2].args.filters
    /\ Unresolved(log[2].args.filters[i][1])
    /\ log[3].args.filters = Remove(log[2].args.filters, i)
    /\ log[3].args.custom_filter = log[2].args.custom_filter

\* C13: a filter entry whose field resolves to no column raises no error and
\* has no effect: the call stores the cohort the same call without that entry
\* stores
C13_UnresolvedFieldNoEffect ==
    /\ (/\ Len(log) >= 2
        /\ log[1].status = "ok"
        /\ \E i \in DOMAIN log[2].args.filters : Unresolved(log[2].args.filters[i][1]))
       => FilterDone(log[2])
    /\ \A i \in 1..2 :
          IsRemoval(i) => cohorts[log[2].args.name] = cohorts[log[3].args.name]

C13_Witness ==
    /\ IsRemoval(2)
    /\ log[2].args.filters[2][1] = "gender"
    /\ log[2].args.custom_filter.given
    /\ ~Empty(GetDemographics)
    /\ cohorts["a"] # <<>>
    /\ ToSet(cohorts["a"]) # ToSet(cohorts["base"])

\* the cells patient p has in column col of the joined frame: those of its
\* demographics rows, a null when it has none
CellsOf(p, col) ==
    LET rows == GetDemographics.rows
        own == {i \in DOMAIN rows : rows[i]["FACPATID"] = <<p>>}
    IN IF own = {} THEN {NaN} ELSE {rows[i][col] : i \in own}

\* a successful filter_cohort with the single entry field: value
SingleFilter(field) ==
    /\ FilterDone(call)
    /\ Len(call.args.filters) = 1
    /\ call.args.filters[1][1] = field
    /\ ~call.args.custom_filter.given

\* the rows a filter value keeps, by its shape
Keeps(value, cell) ==
    CASE value.kind = "dict" ->
            /\ "min" \in DOMAIN value.v => ~IsNull(cell) /\ cell[1] >= value.v["min"]
            /\ "max" \in DOMAIN value.v => ~IsNull(cell) /\ cell[1] <= value.v["max"]
      [] value.kind = "tuple" ->
            ~IsNull(cell) /\ value.v[1] <= cell[1] /\ cell[1] <= value.v[2]
      [] value.kind = "list" ->
            \E k \in DOMAIN value.v : cell = <<value.v[k]>>
      [] OTHER -> ~IsNull(cell) /\ cell = value.v

\* C14: for a resolved non-registry field the stored cohort holds the source
\* patients with a row the filter value keeps: a mapping by its inclusive
\* min and max, each optional; a pair (a, b) by a <= value <= b; a list by
\* membership; any other scalar by equality
C14_ValueShapes ==
    (SingleFilter("age") /\ ~Unresolved("age")) =>
        ToSet(call.value) =
            {p \in ToSet(cohorts[call.args.source_cohort]) :
                \E cell \in CellsOf(p, "AGE") : Keeps(call.args.filters[1][2], cell)}

C14_Witness ==
    /\ SingleFilter("age")
    /\ ~Unresolved("age")
    /\ call.args.filters[1][2].kind = "dict"
    /\ DOMAIN call.args.filters[1][2].v = {"min"}
    /\ \E p \in ToSet(call.value) : <<18>> \in CellsOf(p, "AGE")
    /\ \E p \in ToSet(cohorts["base"]) \ ToSet(call.value) : <<10>> \in CellsOf(p, "AGE")

\* the filter values that select the USNDR side
SelectsUsndr(value) == value.kind = "scalar" /\ value.v[1] \in {"True", "usndr", "USNDR"}

\* C15 as stated: True, "usndr" and "USNDR" select the rows whose registry
\* value is exactly True, every other value the rows whose value is not
\* exactly True, null included
C15_RegistryExactlyTrue ==
    (SingleFilter("registry") /\ ~Unresolved("registry")) =>
        ToSet(call.value) =
            {p \in ToSet(cohorts[call.args.source_cohort]) :
                \E cell \in CellsOf(p, "usndr") :
                    SelectsUsndr(call.args.filters[1][2]) <=> cell = <<"True">>}

\* C15 amended: True, "usndr" and "USNDR" select the rows whose registry
\* value compares equal to True (True, and the numbers 1 and 1.0), every
\* other value the rows whose value does not, null included
C15_RegistryEqualToTrue ==
    (SingleFilter("registry") /\ ~Unresolved("registry")) =>
        ToSet(call.value) =
            {p \in ToSet(cohorts[call.args.source_cohort]) :
                \E cell \in CellsOf(p, "usndr") :
                    SelectsUsndr(call.args.filters[1][2])
                        <=> cell \in {<<"True">>, <<"1">>}}

C15_Witness ==
    /\ SingleFilter("registry")
    /\ ~Unresolved("registry")
    /\ call.args.filters[1][2] = Scalar("datahub")
    /\ \E p \in ToSet(call.value) : NaN \in CellsOf(p, "usndr")
    /\ \E p \in ToSet(cohorts["base"]) \ ToSet(call.value) : <<"1">> \in CellsOf(p, "usndr")

ReadOps == {"get_cohort_data", "get_filtered_tables", "get_cohort_summary"}

\* the call works on an existing cohort that has no patients
OnEmptyCohort(c) ==
    /\ c.op \in ReadOps \cup {"filter_cohort"}
    /\ NamedCohort(c) \in DOMAIN cohorts
    /\ cohorts[NamedCohort(c)] = <<>>

\* what every operation but get_cohort_summary returns on an empty cohort
EmptyCohortUsable(c) ==
    /\ c.status = "ok"
    /\ c.op = "filter_cohort" => c.value = <<>>
    /\ c.op = "get_cohort_data" => c.value.rows = <<>>
    /\ c.op = "get_filtered_tables" =>
          \A t \in DOMAIN c.value :
              "FACPATID" \in ToSet(c.value[t].columns) => c.value[t].rows = <<>>

Blocks == {"gender_distribution", "age_stats", "disease_distribution", "registry_distribution"}

\* C16 as stated: on a cohort without patients every operation succeeds;
\* the summary has n_patients 0 and every block it includes is empty
C16_EmptyCohortBlocksEmpty ==
    [][OnEmptyCohort(call') =>
         /\ EmptyCohortUsable(call')
         /\ cohorts'[NamedCohort(call')] = <<>>
         /\ call'.op = "filter_cohort" => cohorts'[call'.args.name] = <<>>
         /\ call'.op = "get_cohort_summary" =>
               /\ call'.value.n_patients = 0
               /\ \A b \in Blocks \cap DOMAIN call'.value : DOMAIN call'.value[b] = {}]_vars

\* C16 amended: on a cohort without patients every operation succeeds; the
\* summary has n_patients 0, empty gender and disease distributions, no age
\* block, and a registry block, included when the registry field resolves,
\* that reports USNDR 0 and DataHub 0
C16_EmptyCohortUsable ==
    [][OnEmptyCohort(call') =>
         /\ EmptyCohortUsable(call')
         /\ cohorts'[NamedCohort(call')] = <<>>
         /\ call'.op = "filter_cohort" => cohorts'[call'.args.name] = <<>>
         /\ call'.op = "get_cohort_summary" =>
               LET summary == call'.value
               IN /\ summary.n_patients = 0
                  /\ "age_stats" \notin DOMAIN summary
                  /\ \A b \in {"gender_distribution", "disease_distribution"}
                               \cap DOMAIN summary : DOMAIN summary[b] = {}
                  /\ "registry_distribution" \in DOMAIN summary <=> ~Unresolved("registry")
                  /\ "registry_distribution" \in DOMAIN summary =>
                        summary["registry_distribution"] = [USNDR |-> 0, DataHub |-> 0]]_vars

C16_Witness ==
    /\ OnEmptyCohort(call)
    /\ call.op = "get_cohort_summary"
    /\ call.status = "ok"
    /\ ~Empty(GetDemographics)
    /\ "disease_distribution" \in DOMAIN call.value
    /\ "registry_distribution" \in DOMAIN call.value
    /\ \E n \in DOMAIN cohorts : cohorts[n] # <<>>

\* the positions of the rows of df that belong to the patients in ids
RowsOf(df, ids) ==
    {i \in DOMAIN df.rows : \E p \in ids : df.rows[i]["FACPATID"] = <<p>>}

\* C17: get_filtered_tables returns, for a table with a patient identifier
\* column, exactly the store rows of the cohort's patients, and a table
\* without one unchanged
C17_FilteredTablesExact ==
    (call.op = "get_filtered_tables" /\ call.status = "ok") =>
        \A t \in DOMAIN call.value :
            /\ t \in DOMAIN tables
            /\ call.value[t].columns = tables[t].columns
            /\ IF "FACPATID" \in ToSet(tables[t].columns)
               THEN LET ids == ToSet(cohorts[call.args.name])
                        kept == RowsOf(tables[t], ids)
                    IN /\ Len(call.value[t].rows) = Cardinality(kept)
                       /\ RowsOf(call.value[t], ids) = DOMAIN call.value[t].rows
                       /\ \A i \in kept : \E j \in DOMAIN call.value[t].rows :
                             call.value[t].rows[j] = tables[t].rows[i]
               ELSE call.value[t] = tables[t]

C17_Witness ==
    /\ call.op = "get_filtered_tables"
    /\ call.status = "ok"
    /\ call.args.tables = <<>>
    /\ DOMAIN call.value = {"demographics_maindata", "diagnosis_maindata", "disease_lookup"}
    /\ Len(call.value["demographics_maindata"].rows) = 1
    /\ Len(tables["demographics_maindata"].rows) = MaxRows
    /\ Len(call.value["diagnosis_maindata"].rows) = 1
    /\ call.value["disease_lookup"].rows # <<>>

BlockField ==
    [gender_distribution |-> "gender", age_stats |-> "age",
     disease_distribution |-> "disease", registry_distribution |-> "registry"]

\* C18: get_cohort_summary of an existing cohort succeeds, reports its number
\* of patients, is exactly {name, n_patients} without demographics data, and
\* includes a block only when its field resolves against the joined frame
C18_SummaryDegrades ==
    (call.op = "get_cohort_summary" /\ call.args.name \in DOMAIN cohorts) =>
        /\ call.status = "ok"
        /\ call.value.name = call.args.name
        /\ call.value.n_patients = Cardinality(ToSet(cohorts[call.args.name]))
        /\ DOMAIN call.value \subseteq {"name", "n_patients"} \cup Blocks
        /\ Empty(GetDemographics) => DOMAIN call.value = {"name", "n_patients"}
        /\ \A b \in Blocks \cap DOMAIN call.value : ~Unresolved(BlockField[b])

C18_Witness ==
    /\ call.op = "get_cohort_summary"
    /\ call.status = "ok"
    /\ DOMAIN call.value =
          {"name", "n_patients", "disease_distribution", "registry_distribution"}
    /\ call.value.n_patients = 1
    /\ Len(GetDemographics.rows) = MaxRows
    /\ \A i \in DOMAIN GetDemographics.rows :
          GetDemographics.rows[i]["FACPATID"] = <<cohorts[call.args.name][1]>>

SummaryDone(c) == c.op = "get_cohort_summary" /\ c.status = "ok"

\* the summary of base follows its registry True and registry False cohorts
IsSplitSummary ==
    /\ Len(log) = 4
    /\ \A k \in 2..3 : FilterDone(log[k])
    /\ SummaryDone(log[4])
    /\ log[4].args.name = "base"
    /\ log[2].args.filters = <<<<"registry", Scalar("True")>>>>
    /\ log[3].args.filters = <<<<"registry", Scalar("False")>>>>
    /\ ~log[2].args.custom_filter.given
    /\ RegistryResolves

\* C19: with a resolvable registry column the registry block of the summary
\* of a cohort reports the sizes of its registry True and registry False
\* cohorts, and the two counts add up to n_patients
C19_SummaryMatchesRegistryFilter ==
    IsSplitSummary =>
        LET summary == log[4].value
        IN /\ "registry_distribution" \in DOMAIN summary
           /\ summary["registry_distribution"].USNDR = Len(cohorts["a"])
           /\ summary["registry_distribution"].DataHub = Len(cohorts["b"])
           /\ summary["registry_distribution"].USNDR
                 + summary["registry_distribution"].DataHub = summary.n_patients

\* the last call is the summary of a cohort built by {disease: v}, or of a
\* cohort derived from it by one more filter call
IsDiseaseSummary ==
    /\ Len(log) \in 3..4
    /\ \A k \in 2..(Len(log) - 1) : FilterDone(log[k])
    /\ SummaryDone(log[Len(log)])
    /\ log[Len(log)].args.name = log[Len(log) - 1].args.name
    /\ Len(log) = 4 => log[3].args.source_cohort = log[2].args.name
    /\ Len(log[2].args.filters) = 1
    /\ log[2].args.filters[1][1] = "disease"
    /\ log[2].args.filters[1][2].kind = "scalar"
    /\ ~Unresolved("disease")

\* C20: the disease distribution of a cohort built by {disease: v}, and of a
\* cohort derived from it, has no key other than v and counts n_patients for v
C20_SummaryReflectsDiseaseFilter ==
    IsDiseaseSummary =>
        LET summary == log[Len(log)].value
            v == log[2].args.filters[1][2].v[1]
            dist == summary["disease_distribution"]
        IN /\ "disease_distribution" \in DOMAIN summary
           /\ DOMAIN dist \subseteq {v}
           /\ summary.n_patients > 0 => v \in DOMAIN dist /\ dist[v] = summary.n_patients

\* the configured source field of a canonical name, the built-in default
\* when the configuration names none
ConfiguredColumn(name) ==
    IF name \in DOMAIN mappings /\ mappings[name] # None THEN mappings[name]
    ELSE IF name \in DOMAIN DEFAULT_MAPPINGS THEN DEFAULT_MAPPINGS[name] ELSE None

\* the three tiers of the lookup of name in columns
ThreeTier(name, columns) ==
    LET same == {i \in DOMAIN columns : Lower(columns[i]) = Lower(name)}
        synonyms == IF name \in DOMAIN fallbacks THEN fallbacks[name] ELSE <<>>
        found == {k \in DOMAIN synonyms : synonyms[k] \in ToSet(columns)}
        Min(S) == CHOOSE x \in S : \A y \in S : x <= y
    IN IF ConfiguredColumn(name) # None /\ ConfiguredColumn(name) \in ToSet(columns)
       THEN ConfiguredColumn(name)
       ELSE IF same # {} THEN columns[Min(same)]
       ELSE IF found # {} THEN synonyms[Min(found)]
       ELSE None

\* C21: resolve returns the configured (else default) column when it is a
\* column, otherwise the first column equal to the name ignoring case,
\* otherwise the first synonym that is a column, otherwise nothing; a result
\* is always a column of the dataset
C21_ThreeTierLookup ==
    call.op = "resolve" =>
        /\ call.value = ThreeTier(call.args.canonical_name, GetDemographics.columns)
        /\ call.value # None => call.value \in ToSet(GetDemographics.columns)

C21_Witness ==
    /\ call.op = "resolve"
    /\ call.args.canonical_name = "disease"
    /\ mappings = [disease |-> "dx"]
    /\ GetDemographics.columns = <<"FACPATID", "dstype", "DISEASE">>
    /\ call.value = "DISEASE"

\* C24: a non-registry filter is applied to the column FieldResolver.resolve
\* returns for its key against the working frame, so the configured column
\* wins over a column that carries the canonical name itself
C24_FilterUsesResolvedColumn ==
    (/\ SingleFilter(call.args.filters[1][1])
     /\ call.args.filters[1][1] # "registry"
     /\ ThreeTier(call.args.filters[1][1], WorkingColumns) # None)
    => ToSet(call.value) =
          {p \in ToSet(cohorts[call.args.source_cohort]) :
              \E cell \in CellsOf(p, ThreeTier(call.args.filters[1][1], WorkingColumns)) :
                  cell = call.args.filters[1][2].v}


\* a birth date that is null or does not parse
NoBirthDate(cell) == IsNull(cell) \/ cell[1] \notin {"y2010", "y1980"}

\* the patients with no demographics row that carries a birth date
Ageless ==
    {p \in Patients :
        \A i \in DOMAIN tables["demographics_maindata"].rows :
            tables["demographics_maindata"].rows[i]["FACPATID"] = <<p>> =>
                NoBirthDate(tables["demographics_maindata"].rows[i]["dob"])}

\* the derived rows of a cohort's patients that carry an age
AgedRows(ids) ==
    {i \in DOMAIN GetDemographics.rows :
        /\ \E p \in ids : GetDemographics.rows[i]["FACPATID"] = <<p>>
        /\ ~IsNull(GetDemographics.rows[i]["AGE"])}

\* C22: a row with a null or unparseable birth date has a null derived age;
\* a patient without a birth date is kept by create_base_cohort and by the
\* disease filter like any other patient (by its disease alone, and always
\* when the demographics table has no rows); age_stats is computed over the
\* non-null ages only and is omitted when the cohort has none
C22_NullAgeRetained ==
    [][/\ \A i \in DOMAIN GetDemographics'.rows :
             IsNull(GetDemographics'.rows[i]["AGE"]) <=>
                NoBirthDate(tables'["demographics_maindata"].rows[i]["dob"])
       /\ (BaseCall(call') /\ call'.status = "ok") =>
             \A p \in Ageless :
                p \in ToSet(cohorts'[call'.args.name]) <=>
                   IF call'.args.validate_enrollment
                   THEN \A f \in Present(call'.args.require_forms) : p \in FormSet(f)
                   ELSE p \in FormSet("demographics_maindata")
       /\ (FilterDone(call') /\ call'.args.filters[1][1] = "disease") =>
             \A p \in Ageless :
                p \in ToSet(cohorts'[call'.args.name]) <=>
                   /\ p \in ToSet(cohorts[call'.args.source_cohort])
                   /\ \/ Empty(GetDemographics)
                      \/ call'.args.filters[1][2].v \in CellsOf(p, "dstype")
       /\ SummaryDone(call') =>
             LET aged == AgedRows(ToSet(cohorts[call'.args.name]))
                 ages == {GetDemographics.rows[i]["AGE"][1] : i \in aged}
             IN /\ "age_stats" \in DOMAIN call'.value <=> aged # {}
                /\ aged # {} =>
                      /\ call'.value["age_stats"].mean[2] = Cardinality(aged)
                      /\ call'.value["age_stats"].min \in ages
                      /\ call'.value["age_stats"].max \in ages
                      /\ \A a \in ages : /\ call'.value["age_stats"].min <= a
                                         /\ a <= call'.value["age_stats"].max]_vars

C22_Witness ==
    /\ SummaryDone(call)
    /\ call.args.name = "a"
    /\ "age_stats" \in DOMAIN call.value
    /\ ToSet(cohorts["a"]) \cap Ageless # {}
    /\ ToSet(cohorts["a"]) \ Ageless # {}
    /\ \E i \in DOMAIN tables["demographics_maindata"].rows :
          tables["demographics_maindata"].rows[i]["dob"] = <<"unknown">>
    /\ call.value["age_stats"].mean[2] < Cardinality(ToSet(cohorts["a"]))

\* C27: construction and every operation leave the store's tables as they
\* were loaded: the demographics table has no AGE column and keeps its birth
\* dates as loaded, the AGE column is in the derived copy only
C27_StoreReadOnly ==
    [][/\ tables' = tables
       /\ "AGE" \notin ToSet(tables'["demographics_maindata"].columns)
       /\ "AGE" \in ToSet(demographics_with_age'[1].columns)
       /\ \A i \in DOMAIN tables'["demographics_maindata"].rows :
             \/ IsNull(tables'["demographics_maindata"].rows[i]["dob"])
             \/ tables'["demographics_maindata"].rows[i]["dob"][1]
                   \in {"y2010", "y1980", "unknown"}]_vars

C27_Witness ==
    /\ call.op = "get_filtered_tables"
    /\ call.status = "ok"
    /\ "AGE" \notin ToSet(call.value["demographics_maindata"].columns)
    /\ call.value["demographics_maindata"].rows # <<>>
    /\ \E i \in DOMAIN demographics_with_age[1].rows :
          ~IsNull(demographics_with_age[1].rows[i]["AGE"])
    /\ "base" \in DOMAIN cohorts


\* C25: get_filtered_tables returns every table of the store when tables is
\* not given and exactly the requested tables that are in the store when a
\* list is given, the empty list included; absent names raise no error
C25_FilteredTablesKeys ==
    (call.op = "get_filtered_tables" /\ call.args.name \in DOMAIN cohorts) =>
        /\ call.status = "ok"
        /\ DOMAIN call.value =
              IF call.args.tables = <<>> THEN DOMAIN tables
              ELSE ToSet(call.args.tables[1]) \cap DOMAIN tables


\* the operations that write the mapping
WriteOps == {"filter_cohort", "create_base_cohort"}

\* C28: a successful filter_cohort or create_base_cohort adds its name to the
\* cohort names and leaves the patient set of every other name as it was;
\* every other step, the read operations and the failed calls included,
\* leaves the mapping unchanged, so no name is ever removed
C28_MappingGrowsAtName ==
    [][/\ DOMAIN cohorts \subseteq DOMAIN cohorts'
       /\ IF call'.op \in WriteOps /\ call'.status = "ok"
          THEN /\ DOMAIN cohorts' = DOMAIN cohorts \cup {call'.args.name}
               /\ \A n \in DOMAIN cohorts :
                     n # call'.args.name => ToSet(cohorts'[n]) = ToSet(cohorts[n])
          ELSE cohorts' = cohorts]_vars

C28_Witness ==
    /\ call.op \in ReadOps
    /\ call.status # "ok"
    /\ call.args.name = "a"
    /\ DOMAIN cohorts = {"base"}
    /\ cohorts["base"] # <<>>


\* a successful get_enrolled_patients
EnrolledDone(c) == c.op = "get_enrolled_patients" /\ c.status = "ok"

\* C29 as stated: whenever get_enrolled_patients succeeds, the report of
\* validate_enrollment for the same forms has the same enrolled patients and
\* its enrolled_count is the number of patients returned
C29_EnrollmentOperationsAgree ==
    EnrolledDone(call) =>
        LET report == EnrollmentReport(call.args.required_forms)
        IN /\ report.enrolled_patients = ToSet(call.value)
           /\ report.enrolled_count = Len(call.value)

\* C29 amended: the two operations agree when every required form is in the
\* store; when a required form is absent the report has no enrolled patient,
\* whatever get_enrolled_patients returns
C29_EnrollmentAgreesOnPresentForms ==
    EnrolledDone(call) =>
        LET report == EnrollmentReport(call.args.required_forms)
        IN IF ToSet(call.args.required_forms) \subseteq DOMAIN tables
           THEN /\ report.enrolled_patients = ToSet(call.value)
                /\ report.enrolled_count = Len(call.value)
           ELSE /\ report.enrolled_patients = {}
                /\ report.enrolled_count = 0

C29_Witness ==
    /\ EnrolledDone(call)
    /\ Len(call.args.required_forms) >= 2
    /\ ToSet(call.args.required_forms) \subseteq DOMAIN tables
    /\ call.value # <<>>
    /\ \E f \in ToSet(call.args.required_forms) : FormSet(f) # ToSet(call.value)


\* every demographics cell of patient p in column col is null
AllNull(p, col) == CellsOf(p, col) = {NaN}

\* a scalar, a pair, or a mapping with min or max
IsComparison(value) ==
    \/ value.kind \in {"scalar", "tuple"}
    \/ value.kind = "dict" /\ DOMAIN value.v # {}

\* C30: a patient whose cells in the filtered column are all null, or who
\* has no demographics row, is in no cohort produced by a scalar or range
\* filter on a resolved non-registry field; the registry filter keeps such
\* a source patient exactly when the value does not select the registry
C30_NullValueExcluded ==
    /\ (SingleFilter("age") /\ ~Unresolved("age")
            /\ IsComparison(call.args.filters[1][2])) =>
          \A p \in Patients : AllNull(p, "AGE") => p \notin ToSet(call.value)
    /\ (SingleFilter("registry") /\ ~Unresolved("registry")) =>
          \A p \in ToSet(cohorts[call.args.source_cohort]) :
             AllNull(p, "usndr") =>
                (p \in ToSet(call.value) <=> ~SelectsUsndr(call.args.filters[1][2]))

C30_Witness ==
    /\ SingleFilter("age")
    /\ ~Unresolved("age")
    /\ call.args.filters[1][2].kind = "dict"
    /\ DOMAIN call.args.filters[1][2].v = {"min"}
    /\ call.value # <<>>
    /\ \E p \in ToSet(cohorts[call.args.source_cohort]) :
          /\ AllNull(p, "AGE")
          /\ p \in PatientsOf(tables["demographics_maindata"])
          /\ p \notin ToSet(call.value)


ScriptOps == {"create_cohort", "create_cohorts", "create_all_disease_cohorts", "main"}

\* a step of a helper script
ScriptStep == call'.op \in ScriptOps /\ call' # call

\* the diseases a finished script call was asked for
Requested(c) ==
    CASE c.op = "create_cohort" -> {c.args.disease}
      [] c.op = "create_cohorts" -> ToSet(c.args.diseases)
      [] c.op = "main" -> ToSet(DiseasesToCreate(c.args))

\* the registry flag of a script call
RegistryOf(c) ==
    IF c.op = "main" THEN c.args.registry \in {"True", "true", "1"} ELSE c.args.registry

\* the base patients with a demographics row of disease d in the bucket
InBucket(d, registry) ==
    {p \in ToSet(cohorts["base"]) :
        \E i \in DOMAIN tables["demographics_maindata"].rows :
            LET row == tables["demographics_maindata"].rows[i]
            IN /\ row["FACPATID"] = <<p>>
               /\ row["dstype"] = <<d>>
               /\ registry <=> row["usndr"] = <<"True">>}

\* C23: after create_cohort or create_cohorts has returned, or main has
\* ended, without an explicit name, every requested disease d has the cohort
\* exploratory_<d in lower case>_<usndr or datahub>, and its patients are the
\* base patients of disease d in the requested registry bucket
C23_OneCohortPerDisease ==
    (/\ call.op \in {"create_cohort", "create_cohorts", "main"}
     /\ call.args.name = <<>>
     /\ IF call.op = "main" THEN call.status # "running" ELSE call.status = "ok") =>
        \A d \in Requested(call) :
            LET name == IF RegistryOf(call)
                        THEN IF d = "DMD" THEN "exploratory_dmd_usndr"
                             ELSE "exploratory_sma_usndr"
                        ELSE IF d = "DMD" THEN "exploratory_dmd_datahub"
                             ELSE "exploratory_sma_datahub"
            IN /\ name \in DOMAIN cohorts
               /\ ToSet(cohorts[name]) = InBucket(d, RegistryOf(call))

\* C26: without force no step of a helper script changes the patients of a
\* cohort that exists: create_cohort raises when its name is taken,
\* create_all_disease_cohorts and main leave the cohort as it is
C26_NoOverwriteWithoutForce ==
    [][(ScriptStep /\ ~call'.args.force) =>
          /\ \A n \in DOMAIN cohorts :
                n \in DOMAIN cohorts' /\ ToSet(cohorts'[n]) = ToSet(cohorts[n])
          /\ (call'.op = "create_cohort"
                /\ CohortNameFor(call'.args.disease, call'.args.registry, call'.args.name)
                      \in DOMAIN cohorts) => call'.status = "RuntimeError"]_vars

====
